---- MODULE Spec2Model ----
(***************************************************************************)
(* Engine adapters of ccpa-telegram: one execute() call of an adapter      *)
(* (prompt building, the child process' stdout/stderr/close/error          *)
(* handlers and the promise they settle), the argument vectors the         *)
(* adapters build, the message handlers' use of the stored session, the    *)
(* context of a project (configuration loads, the boot cache and the       *)
(* steps of resolveContext with its two hook stages), a session reset      *)
(* by /clean or /reset and a skill call through the agent facade, the      *)
(* start-up, hot reload and shutdown of the bots of a configuration, the   *)
(* auth and rate-limit middleware, sendDownloadFiles, the slugs derived    *)
(* from a project's cwd, the stdout stream of a line-event adapter as      *)
(* text cut into chunks, the /reset confirmation prompts of the bots of    *)
(* one process, and the text messages and /clean commands of one user.     *)
(*                                                                         *)
(* Strings are sequences of tokens; a token is a whitespace character      *)
(* (" ", "\n") or an opaque fragment of text.  The empty string is <<>>.   *)
(***************************************************************************)
EXTENDS Integers, Sequences, FiniteSets, TLC

\* ------------------------------------------------------------------ bounds
\* stdout `data` events delivered to one child
MaxChunks == 2
\* stderr `data` events delivered to one child
MaxStderrChunks == 1

\* ------------------------------------------------------- JavaScript values
\* the value `undefined` (also used for `null`) where a string is expected
UNDEF == <<"<undefined>">>

Truthy(s) == s # UNDEF /\ s # <<>>

\* a || b
Or(a, b) == IF Truthy(a) THEN a ELSE b

\* a ?? b
Coalesce(a, b) == IF a # UNDEF THEN a ELSE b

IsSpace(t) == t \in {" ", "\n"}

RECURSIVE TrimStart(_)
TrimStart(s) ==
  IF s = <<>> THEN <<>>
  ELSE IF IsSpace(Head(s)) THEN TrimStart(Tail(s)) ELSE s

RECURSIVE TrimEnd(_)
TrimEnd(s) ==
  IF s = <<>> THEN <<>>
  ELSE IF IsSpace(s[Len(s)]) THEN TrimEnd(SubSeq(s, 1, Len(s) - 1)) ELSE s

\* String.prototype.trim
Trim(s) == TrimEnd(TrimStart(s))

\* ----------------------------------------------------------------- engines
LineEngines == {"claude", "antigravity"}
BufferedEngines == {"copilot", "cursor", "opencode", "codex"}
Engines == LineEngines \cup BufferedEngines

\* const cmd = command || DEFAULT_COMMAND
Cmd(e) ==
  CASE e = "claude" -> "claude"
    [] e = "antigravity" -> "gemini"
    [] e = "copilot" -> "copilot"
    [] e = "cursor" -> "agent"
    [] e = "opencode" -> "opencode"
    [] e = "codex" -> "codex"

\* the name each adapter writes into its "exited with code" message
ExitLabel(e) ==
  CASE e = "claude" -> "Claude"
    [] e = "antigravity" -> "Gemini"
    [] e = "copilot" -> "Copilot"
    [] e = "cursor" -> "Cursor"
    [] e = "opencode" -> "OpenCode"
    [] e = "codex" -> "Codex"

\* ------------------------------------------------------------ EngineResult
EngineResult(success, output, sessionId, error) ==
  [success |-> success, output |-> output, sessionId |-> sessionId, error |-> error]

\* `let lastResult: EngineResult | null = null`
NoResult == [null |-> TRUE]

\* ------------------------------------------------------- context and prompt
\* A context mapping is a sequence of <<key, value>> pairs (a JavaScript
\* object keeps insertion order), each value a string; a hook may also hand
\* back null/undefined.
CtxMap(m) == [kind |-> "map", m |-> m]
CtxNull == [kind |-> "null", m |-> <<>>]

HasKey(m, k) == \E i \in 1..Len(m) : m[i][1] = k

\* merged[k] = v
SetKey(m, k, v) ==
  IF HasKey(m, k)
    THEN [i \in 1..Len(m) |-> IF m[i][1] = k THEN <<k, v>> ELSE m[i]]
    ELSE Append(m, <<k, v>>)

\* m[k] of a key the mapping has
Get(m, k) == m[CHOOSE i \in 1..Len(m) : m[i][1] = k][2]

\* what a hook file does when it is loaded and called:
\*   absent   the file does not exist
\*   throws   the import or the hook throws before it touches the context
\*   mutates  the hook assigns context[key] = "h" and then throws
\*   extra    the hook returns {...context, [key]: "h"}
\*   only     the hook returns {[key]: "h"}
\*   null     the hook returns nothing
HookOutcomes == {"absent", "throws", "mutates", "extra", "only", "null"}

HookValue == <<"h">>

\* gramCtx.from of an update without a sender
NoFrom == [first_name |-> UNDEF]

\* buildImplicitContext and the project.* keys; nameOf is `from`;
\* "bot.firstName" is from?.first_name ?? ""
BuildImplicitContext(nameOf) ==
  CtxMap(<< <<"bot.userId", <<"u1">> >>,
            <<"bot.firstName", Coalesce(nameOf.first_name, <<>>)>>,
            <<"project.name", <<"p">> >> >>)

\* the mapping resolveContext holds before the hooks run (no config context)
ImplicitContext == BuildImplicitContext(NoFrom)

\* mutant: the hook's return value is dropped
LoadAndRunHookIgnoresReturn(outcome, key, context) ==
  IF outcome = "mutates" /\ context.kind = "map"
    THEN CtxMap(SetKey(context.m, key, HookValue))
    ELSE context

\* loadAndRunHook: an absent hook and a hook that throws return the context
\* object they were given (the hook was handed that same object, so what it
\* assigned before throwing stays); otherwise the hook's return value is
\* returned as it is.
LoadAndRunHook(outcome, key, context) ==
  CASE outcome = "absent" -> context
    [] outcome = "throws" -> context
    [] outcome = "mutates" ->
         IF context.kind = "map" THEN CtxMap(SetKey(context.m, key, HookValue))
         ELSE context
    [] outcome = "extra" ->
         IF context.kind = "map" THEN CtxMap(SetKey(context.m, key, HookValue))
         ELSE CtxMap(<< <<key, HookValue>> >>)
    [] outcome = "only" -> CtxMap(<< <<key, HookValue>> >>)
    [] outcome = "null" -> CtxNull

\* resolveContext: the global hook, then the project hook on its output
ResolveContext(h1, h2) ==
  LoadAndRunHook(h2, "hook.project",
                 LoadAndRunHook(h1, "hook.global", ImplicitContext))

RECURSIVE ContextLines(_)
ContextLines(m) ==
  IF m = <<>> THEN <<>>
  ELSE <<"- ", m[1][1], ": ">> \o m[1][2] \o <<"\n">> \o ContextLines(Tail(m))

\* Object.entries(context) throws a TypeError on null and undefined
FormatThrows(context) == context.kind = "null"

\* formatContextPrompt
FormatContextPrompt(context, userMessage) ==
  <<"# Context\n">> \o ContextLines(context.m)
    \o <<"\n# User Message\n">> \o userMessage

\* the note appended when options.downloadsPath is set
DownloadsNote == <<"\n\n[System: To send files to the user, write them to: ", "/d/u1/downloads", "]">>

UserMessage == <<"hello">>

\* buildContextualPrompt: [threw, text]
BuildContextualPrompt(hasGramCtx, h1, h2, hasDownloads) ==
  LET ctx == ResolveContext(h1, h2)
      contextual == IF hasGramCtx THEN FormatContextPrompt(ctx, UserMessage)
                    ELSE UserMessage
  IN  IF hasGramCtx /\ FormatThrows(ctx)
        THEN [threw |-> TRUE, text |-> <<>>]
        ELSE [threw |-> FALSE,
              text |-> IF hasDownloads THEN contextual \o DownloadsNote
                       ELSE contextual]

\* ----------------------------------------------------------------- promise
Pending == [state |-> "pending", value |-> NoResult]
Rejected == [state |-> "rejected", value |-> NoResult]

\* mutant: a later call of resolve replaces the settled value
ResolveLastWins(p, v) ==
  IF p.state = "rejected" THEN p ELSE [state |-> "resolved", value |-> v]

\* a call of the promise's resolve: only the first settlement counts
Resolve(p, v) ==
  IF p.state = "pending" THEN [state |-> "resolved", value |-> v] ELSE p

\* --------------------------------------------- line-event parser: Claude
\* One stdout line of the Claude CLI after JSON.parse; type "garbage" is a
\* line JSON.parse rejects, type "blank" a line of whitespace only.
NoInput == [file_path |-> UNDEF, pattern |-> UNDEF, command |-> UNDEF,
            query |-> UNDEF, url |-> UNDEF]

TextBlock(t) == [type |-> "text", text |-> t, name |-> UNDEF, input |-> NoInput]
ToolUseBlock(n, in) == [type |-> "tool_use", text |-> UNDEF, name |-> n, input |-> in]
ToolResultBlock == [type |-> "tool_result", text |-> UNDEF, name |-> UNDEF, input |-> NoInput]

ClaudeEvent(type, subtype, sid, content, isError, result, errors) ==
  [type |-> type, subtype |-> subtype, session_id |-> sid, content |-> content,
   is_error |-> isError, result |-> result, errors |-> errors]

GarbageLine == ClaudeEvent("garbage", "", UNDEF, <<>>, FALSE, UNDEF, <<>>)
BlankLine == ClaudeEvent("blank", "", UNDEF, <<>>, FALSE, UNDEF, <<>>)
SystemInit(sid) == ClaudeEvent("system", "init", sid, <<>>, FALSE, UNDEF, <<>>)
Assistant(content) == ClaudeEvent("assistant", "", UNDEF, content, FALSE, UNDEF, <<>>)
UserEvent(content) == ClaudeEvent("user", "", UNDEF, content, FALSE, UNDEF, <<>>)
ResultEvent(isError, result, sid, errors) ==
  ClaudeEvent("result", "", sid, <<>>, isError, result, errors)

\* String.prototype.slice(0, n)
Slice(s, n) == SubSeq(s, 1, IF Len(s) < n THEN Len(s) ELSE n)

\* the length up to which a Bash command is shown in a progress message
BashPreview == 50

\* the per-tool progress templates of the Claude adapter
ClaudeProgressMsg(block) ==
  LET toolName == Or(block.name, <<"unknown">>)
      in == block.input
  IN  CASE toolName = <<"Read">> /\ Truthy(in.file_path) -> <<"Reading: ">> \o in.file_path
        [] toolName = <<"Grep">> /\ Truthy(in.pattern) -> <<"Searching for: ">> \o in.pattern
        [] toolName = <<"Glob">> /\ Truthy(in.pattern) -> <<"Finding files: ">> \o in.pattern
        [] toolName = <<"Bash">> /\ Truthy(in.command) ->
             <<"Running: ">> \o Slice(in.command, BashPreview)
               \o (IF Len(in.command) > BashPreview THEN <<"...">> ELSE <<>>)
        [] toolName = <<"Edit">> /\ Truthy(in.file_path) -> <<"Editing: ">> \o in.file_path
        [] toolName = <<"Write">> /\ Truthy(in.file_path) -> <<"Writing: ">> \o in.file_path
        [] toolName = <<"WebSearch">> /\ Truthy(in.query) -> <<"Searching web: ">> \o in.query
        [] toolName = <<"WebFetch">> /\ Truthy(in.url) -> <<"Fetching: ">> \o in.url
        [] OTHER -> <<"Using ">> \o toolName \o <<"...">>

\* errors.join("; ")
RECURSIVE JoinErrors(_)
JoinErrors(errs) ==
  IF Len(errs) = 0 THEN <<>>
  ELSE IF Len(errs) = 1 THEN errs[1]
  ELSE errs[1] \o <<"; ">> \o JoinErrors(Tail(errs))

\* the parser state: [sid, text, res, prog, ev]
ParserState(sid, text, res, prog, ev) ==
  [sid |-> sid, text |-> text, res |-> res, prog |-> prog, ev |-> ev]

\* the blocks of one assistant message, in order
RECURSIVE ClaudeBlocks(_, _, _)
ClaudeBlocks(st, blocks, hasSink) ==
  IF blocks = <<>> THEN st
  ELSE LET b == Head(blocks)
           t == IF b.type = "text" /\ Truthy(b.text) THEN b.text ELSE st.text
           p == IF b.type = "tool_use" /\ hasSink
                  THEN Append(st.prog, ClaudeProgressMsg(b)) ELSE st.prog
       IN  ClaudeBlocks([st EXCEPT !.text = t, !.prog = p], Tail(blocks), hasSink)

\* mutant: the init session id is preferred to the result event's own
ClaudeResultInitSidFirst(ev, sid) ==
  EngineResult(~ev.is_error, Or(ev.result, <<>>), Or(sid, ev.session_id),
               IF ev.is_error THEN ev.result ELSE UNDEF)

\* the terminal result event: `lastResult = {...}`
ClaudeResult(ev, sid) ==
  LET errorMessage ==
        IF ev.is_error
          THEN Or(ev.result, IF Len(ev.errors) > 0 THEN JoinErrors(ev.errors) ELSE UNDEF)
          ELSE UNDEF
  IN  EngineResult(~ev.is_error, Or(ev.result, <<>>), Or(ev.session_id, sid),
                   errorMessage)

\* the body of the `for (const line of lines)` loop
ClaudeOnLine(st, ev, hasSink) ==
  IF ev.type \in {"garbage", "blank"} THEN st
  ELSE
    LET s1 == IF ev.type = "system" /\ ev.subtype = "init" /\ Truthy(ev.session_id)
                THEN [st EXCEPT !.sid = ev.session_id] ELSE st
        s2 == IF ev.type = "assistant" THEN ClaudeBlocks(s1, ev.content, hasSink) ELSE s1
    IN  IF ev.type = "result"
          THEN [s2 EXCEPT !.res = ClaudeResult(ev, s2.sid), !.ev = ev]
          ELSE s2

\* the stdout lines the model feeds the Claude adapter
ClaudeLines ==
  { GarbageLine, BlankLine,
    SystemInit(<<"s1">>), SystemInit(<<>>),
    Assistant(<<TextBlock(<<"a">>)>>),
    Assistant(<<TextBlock(<<>>),
                ToolUseBlock(<<"Read">>, [NoInput EXCEPT !.file_path = <<"/f">>]),
                ToolUseBlock(UNDEF, NoInput)>>),
    UserEvent(<<ToolResultBlock>>),
    ResultEvent(FALSE, <<"r">>, <<"s2">>, <<>>),
    ResultEvent(FALSE, <<"r">>, UNDEF, <<>>),
    ResultEvent(FALSE, UNDEF, UNDEF, <<>>),
    ResultEvent(TRUE, <<"boom">>, <<"s2">>, <<>>),
    ResultEvent(TRUE, UNDEF, UNDEF, << <<"e1">>, <<"e2">> >>),
    ResultEvent(TRUE, UNDEF, UNDEF, <<>>) }

\* ---------------------------------- line-event parser: Antigravity (Gemini)
NoArgs == [path |-> UNDEF, pattern |-> UNDEF, command |-> UNDEF]

\* event.error: absent, or an object whose message may be missing
NoError == [present |-> FALSE, message |-> UNDEF]
ErrorObj(m) == [present |-> TRUE, message |-> m]

GeminiEvent(type, sid, name, args, arguments, role, text, status, error) ==
  [type |-> type, sessionId |-> sid, name |-> name, args |-> args,
   arguments |-> arguments, role |-> role, text |-> text, status |-> status,
   error |-> error]

GeminiGarbage == GeminiEvent("garbage", UNDEF, UNDEF, NoArgs, NoArgs, "", UNDEF, "", NoError)
GeminiBlank == GeminiEvent("blank", UNDEF, UNDEF, NoArgs, NoArgs, "", UNDEF, "", NoError)
GeminiInit(sid) == GeminiEvent("init", sid, UNDEF, NoArgs, NoArgs, "", UNDEF, "", NoError)
GeminiToolUse(name, args, arguments) ==
  GeminiEvent("tool_use", UNDEF, name, args, arguments, "", UNDEF, "", NoError)
GeminiMessage(role, text) ==
  GeminiEvent("message", UNDEF, UNDEF, NoArgs, NoArgs, role, text, "", NoError)
GeminiToolResult == GeminiEvent("tool_result", UNDEF, UNDEF, NoArgs, NoArgs, "", UNDEF, "", NoError)
GeminiResult(status, error) ==
  GeminiEvent("result", UNDEF, UNDEF, NoArgs, NoArgs, "", UNDEF, status, error)

\* the per-tool progress templates of the Antigravity adapter
GeminiProgressMsg(ev) ==
  LET toolName == Or(ev.name, <<"unknown">>)
      path == Or(ev.args.path, ev.arguments.path)
      pattern == Or(ev.args.pattern, ev.arguments.pattern)
      command == Or(ev.args.command, ev.arguments.command)
      runCmd == Coalesce(ev.args.command, Coalesce(ev.arguments.command, <<>>))
  IN  CASE toolName = <<"read_file">> /\ Truthy(path) -> <<"Reading: ">> \o path
        [] toolName = <<"search_files">> /\ Truthy(pattern) -> <<"Searching for: ">> \o pattern
        [] toolName = <<"run_command">> /\ Truthy(command) ->
             <<"Running: ">> \o Slice(runCmd, BashPreview)
               \o (IF Len(runCmd) > BashPreview THEN <<"...">> ELSE <<>>)
        [] toolName = <<"edit_file">> /\ Truthy(path) -> <<"Editing: ">> \o path
        [] toolName = <<"write_file">> /\ Truthy(path) -> <<"Writing: ">> \o path
        [] OTHER -> <<"Using ">> \o toolName \o <<"...">>

\* JSON.stringify({ text: lastAssistantText, stats: event.stats })
PackOutput(text) == <<"{\"text\":">> \o text \o <<",\"stats\":{}}">>

\* the terminal result event: `lastResult = {...}`
GeminiResultOf(ev, sid, text) ==
  EngineResult(ev.status = "success" /\ ~ev.error.present, PackOutput(text), sid,
               ev.error.message)

\* the body of the `for (const line of lines)` loop
GeminiOnLine(st, ev, hasSink) ==
  IF ev.type \in {"garbage", "blank"} THEN st
  ELSE
    LET s1 == IF ev.type = "init" THEN [st EXCEPT !.sid = ev.sessionId] ELSE st
        s2 == IF ev.type = "tool_use" /\ hasSink
                THEN [s1 EXCEPT !.prog = Append(s1.prog, GeminiProgressMsg(ev))] ELSE s1
        s3 == IF ev.type = "message" /\ ev.role \in {"assistant", "model"} /\ ev.text # UNDEF
                THEN [s2 EXCEPT !.text = ev.text] ELSE s2
    IN  IF ev.type = "result"
          THEN [s3 EXCEPT !.res = GeminiResultOf(ev, s3.sid, s3.text), !.ev = ev]
          ELSE s3

\* the stdout lines the model feeds the Antigravity adapter
GeminiLines ==
  { GeminiGarbage, GeminiBlank,
    GeminiInit(<<"s1">>), GeminiInit(UNDEF),
    GeminiToolUse(<<"read_file">>, NoArgs, [NoArgs EXCEPT !.path = <<"/f">>]),
    GeminiMessage("assistant", <<"a">>), GeminiMessage("user", <<"q">>),
    GeminiToolResult,
    GeminiResult("success", NoError),
    GeminiResult("error", ErrorObj(<<"quota">>)),
    GeminiResult("error", NoError),
    GeminiResult("success", ErrorObj(UNDEF)) }

\* ------------------------------------------------------------- the handlers
LinesOf(e) == IF e = "claude" THEN ClaudeLines ELSE GeminiLines

OnLine(e, st, ev, hasSink) ==
  IF e = "claude" THEN ClaudeOnLine(st, ev, hasSink) ELSE GeminiOnLine(st, ev, hasSink)

\* proc.stdout.on("data") of a line-event adapter: every line of the chunk
RECURSIVE OnLines(_, _, _, _)
OnLines(e, st, lines, hasSink) ==
  IF lines = <<>> THEN st
  ELSE OnLines(e, OnLine(e, st, Head(lines), hasSink), Tail(lines), hasSink)

\* the stdout chunks the model feeds a line-event adapter: one line or two
LineChunks(e) == { <<l>> : l \in LinesOf(e) } \cup (LinesOf(e) \X LinesOf(e))

\* the stdout chunks the model feeds a buffered adapter
TextChunks == { <<"o">>, <<" ">>, <<"\n", "o", "\n">> }

\* the text each buffered adapter reports while stdout arrives
RespondingMsg(e) ==
  CASE e = "copilot" -> <<"Copilot is responding...">>
    [] e = "cursor" -> <<"Cursor is responding...">>
    [] e = "opencode" -> <<"OpenCode is responding...">>
    [] OTHER -> <<>>

\* a buffered adapter that forwards progress (Codex does not)
ReportsProgress(e) == e \in {"copilot", "cursor", "opencode"}

\* the stderr chunks the model feeds every adapter
StderrChunks == { <<" ", "\n">>, <<"\n", "fatal", " ">> }

\* proc.stderr.on("data")
OnStderr(acc, data) ==
  LET chunk == Trim(data)
  IN  IF chunk # <<>> THEN acc \o chunk \o <<"\n">> ELSE acc

\* `<Engine> exited with code ${code}`
ExitedMsg(e, code) == <<ExitLabel(e), " exited with code ", ToString(code)>>

\* mutant: the exit code is looked at before the captured result
LineOnCloseCodeFirst(e, res, code, text, sid, errOut) ==
  IF code # 0
    THEN EngineResult(FALSE, text, UNDEF, Or(Trim(errOut), ExitedMsg(e, code)))
  ELSE IF res # NoResult THEN res
  ELSE EngineResult(TRUE, Or(text, <<"No response received">>), sid, UNDEF)

\* proc.on("close") of the line-event adapters: the value given to resolve
LineOnClose(e, res, code, text, sid, errOut) ==
  IF res # NoResult THEN res
  ELSE IF code = 0
    THEN EngineResult(TRUE, Or(text, <<"No response received">>), sid, UNDEF)
    ELSE EngineResult(FALSE, text, UNDEF, Or(Trim(errOut), ExitedMsg(e, code)))

\* mutant: a failure reports stderr alone, without the exit-code message
BufferedOnCloseStderrOnly(e, code, out, errOut) ==
  IF code = 0
    THEN EngineResult(TRUE, Or(Trim(out), <<"No response received">>), UNDEF, UNDEF)
    ELSE EngineResult(FALSE, <<>>, UNDEF, Trim(errOut))

\* proc.on("close") of the buffered adapters: the value given to resolve
BufferedOnClose(e, code, out, errOut) ==
  IF code = 0
    THEN EngineResult(TRUE, Or(Trim(out), <<"No response received">>), UNDEF, UNDEF)
    ELSE EngineResult(FALSE,
                      IF e \in {"copilot", "cursor"} THEN Trim(out) ELSE <<>>,
                      UNDEF,
                      Or(Trim(errOut), ExitedMsg(e, code)))

\* the OS error of a failed spawn, and the code its close event carries
SpawnErrors == { [message |-> <<"spawn ENOENT">>, code |-> -2],
                 [message |-> <<"spawn EACCES">>, code |-> -13] }

\* mutant: the message leaves out the command
OnErrorNoCommand(e, err) ==
  EngineResult(FALSE, <<>>, UNDEF, <<"Failed to start process", ": ">> \o err.message)

\* proc.on("error"): the value given to resolve
OnError(e, err) ==
  EngineResult(FALSE, <<>>, UNDEF, <<"Failed to start ", Cmd(e), ": ">> \o err.message)

\* exit codes of a child that ran
ExitCodes == {0, 1, 2}

\* ------------------------------------------------- context value placeholders
\* A placeholder is one token of a value.  APP_VAR_RE /\$\{([^}]+)\}/g,
\* BOOT_SHELL_RE /#\{([^}]+)\}/g and MSG_SHELL_RE /@\{([^}]+)\}/g: the
\* tokens each expression matches, with the text of its capture group.
AppVarTokens ==
  {"${B}", "${USER}", "${HOME}", "${NOPE}", "${constructor}", "${bot.userId}"}

AppVarExpr(t) ==
  CASE t = "${B}" -> "B"
    [] t = "${USER}" -> "USER"
    [] t = "${HOME}" -> "HOME"
    [] t = "${NOPE}" -> "NOPE"
    [] t = "${constructor}" -> "constructor"
    [] t = "${bot.userId}" -> "bot.userId"

BootShellTokens == {"#{rev}", "#{false}", "#{nosuch}"}
MsgShellTokens == {"@{date}", "@{false}", "@{sleep}", "@{id}"}

ShellTokens(kind) == IF kind = "boot" THEN BootShellTokens ELSE MsgShellTokens

ShellCmd(t) ==
  CASE t \in {"#{rev}"} -> "rev"
    [] t \in {"@{date}"} -> "date"
    [] t \in {"@{id}"} -> "id"
    [] t \in {"#{false}", "@{false}"} -> "false"
    [] t \in {"@{sleep}"} -> "sleep"
    [] t \in {"#{nosuch}"} -> "nosuch"

\* commands execSync throws for: "false" exits non-zero, "sleep" outlives
\* the timeout, "nosuch" cannot be spawned
FailingCmds == {"false", "sleep", "nosuch"}

\* what the n-th command run of the process writes to its stdout
ShellStdout(cmd, n) == <<cmd \o ":" \o ToString(n), "\n">>

\* mutant: a failed command leaves the error's message in the value
ExecSyncKeepsError(cmd, n) ==
  IF cmd \in FailingCmds THEN <<"Command failed: " \o cmd>> ELSE Trim(ShellStdout(cmd, n))

\* execSync(cmd, ...).trim(), or "" when execSync throws
ExecSync(cmd, n) == IF cmd \in FailingCmds THEN <<>> ELSE Trim(ShellStdout(cmd, n))

\* value.replace(RE, (_match, cmd) => ...) of evaluateBootTimeShells and
\* evaluateMessageTimeShells; n commands ran before.  Gives the new value
\* and the commands run, in order.
RECURSIVE ReplaceShells(_, _, _, _)
ReplaceShells(kind, key, value, n) ==
  IF value = <<>> THEN [value |-> <<>>, runs |-> <<>>]
  ELSE IF Head(value) \in ShellTokens(kind)
    THEN LET cmd == ShellCmd(Head(value))
             rest == ReplaceShells(kind, key, Tail(value), n + 1)
         IN  [value |-> ExecSync(cmd, n + 1) \o rest.value,
              runs |-> <<[kind |-> kind, key |-> key, cmd |-> cmd]>> \o rest.runs]
    ELSE LET rest == ReplaceShells(kind, key, Tail(value), n)
         IN  [value |-> <<Head(value)>> \o rest.value, runs |-> rest.runs]

HasToken(value, tokens) == \E i \in 1..Len(value) : value[i] \in tokens

\* evaluateBootTimeShells: every key of the declared context, in order
RECURSIVE EvaluateBootTimeShells(_, _)
EvaluateBootTimeShells(context, n) ==
  IF context = <<>> THEN [m |-> <<>>, runs |-> <<>>]
  ELSE LET r == ReplaceShells("boot", context[1][1], context[1][2], n)
           rest == EvaluateBootTimeShells(Tail(context), n + Len(r.runs))
       IN  [m |-> << <<context[1][1], r.value>> >> \o rest.m,
            runs |-> r.runs \o rest.runs]

\* process.env
ProcessEnv == << <<"HOME", <<"/root">> >>, <<"USER", <<"env-user">> >> >>

\* members every plain object inherits from Object.prototype
ObjectPrototype ==
  << <<"constructor", <<"function Object() { [native code] }">> >> >>

\* obj[k] of a plain object: an own property, else an inherited member,
\* else undefined
PropertyGet(m, k) ==
  IF HasKey(m, k) THEN Get(m, k)
  ELSE IF HasKey(ObjectPrototype, k) THEN Get(ObjectPrototype, k)
  ELSE UNDEF

\* vars[expr] ?? process.env[expr] ?? ""
AppVarLookup(expr, vars) ==
  Coalesce(Coalesce(PropertyGet(vars, expr), PropertyGet(ProcessEnv, expr)), <<>>)

\* resolveAppVars
RECURSIVE ResolveAppVars(_, _)
ResolveAppVars(value, vars) ==
  IF value = <<>> THEN <<>>
  ELSE IF Head(value) \in AppVarTokens
    THEN AppVarLookup(AppVarExpr(Head(value)), vars) \o ResolveAppVars(Tail(value), vars)
    ELSE <<Head(value)>> \o ResolveAppVars(Tail(value), vars)

\* {...a, ...b} of two mappings (undefined spreads as nothing)
RECURSIVE Overlay(_, _)
Overlay(a, b) ==
  IF b = <<>> THEN a ELSE Overlay(SetKey(a, b[1][1], b[1][2]), Tail(b))

\* mutant: the root-level context is spread over the project's
ResolveProjectContextRootLast(root, project) ==
  IF root.kind = "map" \/ project.kind = "map"
    THEN CtxMap(Overlay(project.m, root.m)) ELSE CtxNull

\* resolveProjectConfig: context
ResolveProjectContext(root, project) ==
  IF root.kind = "map" \/ project.kind = "map"
    THEN CtxMap(Overlay(root.m, project.m)) ELSE CtxNull

\* resolveContext step 2: the config context over the implicit keys, each
\* key through the boot cache
RECURSIVE OverlayConfig(_, _, _)
OverlayConfig(m, entries, cache) ==
  IF entries = <<>> THEN m
  ELSE OverlayConfig(
         SetKey(m, entries[1][1],
                Coalesce(PropertyGet(cache, entries[1][1]), entries[1][2])),
         Tail(entries), cache)

\* resolveContext step 3, from entry i on: m is the mapping in progress
RECURSIVE AppVarPass(_, _)
AppVarPass(m, i) ==
  IF i > Len(m) THEN m
  ELSE AppVarPass(
         IF HasToken(m[i][2], AppVarTokens)
           THEN SetKey(m, m[i][1], ResolveAppVars(m[i][2], m))
           ELSE m,
         i + 1)

\* mutant: the `@{}` pass does nothing
MsgShellPassSkipped(m, i, n) == [m |-> m, runs |-> <<>>]

\* resolveContext step 4, from entry i on; n commands ran before
RECURSIVE MsgShellPass(_, _, _)
MsgShellPass(m, i, n) ==
  IF i > Len(m) THEN [m |-> m, runs |-> <<>>]
  ELSE IF HasToken(m[i][2], MsgShellTokens)
    THEN LET r == ReplaceShells("msg", m[i][1], m[i][2], n)
             rest == MsgShellPass(SetKey(m, m[i][1], r.value), i + 1,
                                  n + Len(r.runs))
         IN  [m |-> rest.m, runs |-> r.runs \o rest.runs]
    ELSE MsgShellPass(m, i + 1, n)

\* --------------------------------------------------------------- variables
VARIABLES
  engine,            \* the adapter execute() was called on
  gramCtx,           \* options.gramCtx is present
  onProgress,        \* options.onProgress is present
  pc,                \* position of the call
  prompt,            \* fullPrompt
  stderrOutput,
  lastResult,
  currentSessionId,
  lastAssistantText,
  stdout,            \* buffered adapters: accumulated stdout
  progress,          \* messages handed to options.onProgress
  promise,           \* the promise execute() returned
  nChunks,           \* stdout data events so far
  nErrChunks,        \* stderr data events so far
  exitCode,          \* code given to the close handler
  spawnErr,          \* the error given to the error handler
  lastResultEv,      \* history: the last terminal result event decoded
  \* --- the argument vector of one call
  opts,              \* the call's options and the project's config
  args,              \* the argument vector handed to spawn
  logged,            \* the warnings the call wrote to the project's logger
  \* --- a message handler of one user
  hEngine,           \* the project's engine
  engineSession,     \* config.engineSession
  sessionFile,       \* currentSessionId of the user's session.json (UNDEF: no file)
  hpc,               \* "idle", or the handler awaiting execute()
  passedSid,         \* the sessionId of the options given to execute()
  wroteSession,      \* history: the last handler run called saveSessionId
  nMessages,         \* messages handled so far
  \* --- the context of one project
  cpc,               \* "boot", "ready", or the hook resolveContext awaits
  rootContext,       \* `context` at the root of the config file
  projectContext,    \* `context` of the project
  configContext,     \* config.context of the resolved project config
  shellCache,        \* bootContext.shellCache
  shellLog,          \* history: the shell commands run by this process
  nLoads,            \* runs of runBotsForConfig
  nResolved,         \* calls of resolveContext
  mergedRaw,         \* history: merged after step 2 of the last call
  afterVars,         \* history: merged after step 3 of the last call
  merged,            \* merged, and at the end the returned mapping
  hookLog,           \* history: the hook stages of the last call
  from,              \* gramCtx.from of the message resolveContext was called for
  \* --- a session reset
  rpc,               \* position of the /clean handler or /reset callback
  rEngine,           \* config.engine
  rTrigger,          \* "clean", "reset", or "skill" for a skill command
  rSessionReset,     \* config.commands.reset.sessionReset
  rSession,          \* currentSessionId of the user's session.json
  rCall,             \* the engine call agent.call made
  rRenewal,          \* what agent.call returned or threw
  rReplies,          \* the messages the user was sent
  rResult,           \* history: the result agent.call got from the executor
  rFiles,            \* the files of the user's uploads and downloads directories
  \* --- start-up of the process and its bots
  bpc,               \* position of runStart
  bCli,              \* per project: the engine CLI passes check()
  bBots,             \* per project: the state of its bot
  bHandles,          \* `handles` of runStart: the projects it holds a handle of
  bExit,             \* the status process.exit was called with (-1: none)
  nReloads,          \* runs of the config watcher's callback
  bDisk,             \* the version of the config files on disk
  bLoaded,           \* the version the last runBotsForConfig was given
  bTimer,            \* the watcher's debounce timer is set
  \* --- the middleware chain of one bot
  mAllowed,          \* config.access.allowedUserIds
  mMax,              \* config.rateLimit.max
  mWindowMs,         \* config.rateLimit.windowMs
  mNow,              \* Date.now()
  mStore,            \* the rate limiter's store
  mLog,              \* history: the updates handled and what became of them
  \* --- one sendDownloadFiles call
  dpc,               \* position of the call
  dDir,              \* the files in the user's downloads directory
  dFiles,            \* `files`: what readdir returned
  dNext,             \* index of the file the loop is at
  dDelivered,        \* history: the files replyWithDocument delivered
  dFailed,           \* history: the files whose send failed
  sentCount,
  dReturned,         \* the value the call returned (-1: none)
  \* --- the slugs of one project
  spc,               \* position: config resolution, then context resolution
  sName,             \* `name` of the project in the config file
  sCwd,              \* `cwd` of the project in the config file
  sAbsCwd,           \* config.cwd
  sSlug,             \* config.slug
  sProjectSlug,      \* the `project.slug` context key
  \* --- the stdout stream of one child of a line-event adapter
  tpc,               \* position: the child runs, or its `close` was handled
  tEngine,           \* the adapter
  tSink,             \* options.onProgress is present
  tLines,            \* the lines the child writes to stdout
  tPending,          \* the part of the stream not yet delivered
  tState,            \* currentSessionId, lastAssistantText, lastResult, progress
  tBefore,           \* history: tState before the last `data` event
  tChunk,            \* history: the chunk of the last `data` event
  tChunks,           \* `data` events so far
  tCode,             \* the exit code given to the close handler
  tResult,           \* the value the promise was resolved with
  \* --- the /reset confirmation prompts of the bots of one process
  qRunning,          \* per bot: it was started and not stopped
  activePrompts,     \* the module's map: user id to the prompt message tracked
  qMsgs,             \* the prompt messages sent, by message id
  qReplying,         \* the /reset handlers awaiting their reply: <<bot, user>>
  qTap,              \* the callback query on its way to a bot
  qData,             \* per bot and user: the user's data directory exists
  qLog,              \* history: the callback queries handled
  nTaps,             \* taps so far
  \* --- the updates of one user to the bot instances of one project
  xPolling,          \* the instances of the project's bot that poll
  xQueue,            \* the updates sent and not yet taken by an instance
  xHandling,         \* per instance: the update its handler is at
  xSession,          \* currentSessionId of the user's session.json
  xEpoch,            \* /clean handlers that have completed
  xSavedEpoch,       \* history: xEpoch at the start of the execution that saved
  nSent              \* updates sent so far

execVars == <<engine, gramCtx, onProgress, pc, prompt, stderrOutput, lastResult,
              currentSessionId, lastAssistantText, stdout, progress, promise,
              nChunks, nErrChunks, exitCode, spawnErr, lastResultEv>>

argVars == <<opts, args, logged>>

handlerVars == <<hEngine, engineSession, sessionFile, hpc, passedSid, wroteSession,
                 nMessages>>

ctxVars == <<cpc, rootContext, projectContext, configContext, shellCache, shellLog,
             nLoads, nResolved, mergedRaw, afterVars, merged, hookLog, from>>

resetVars == <<rpc, rEngine, rTrigger, rSessionReset, rSession, rCall, rRenewal,
               rReplies, rResult, rFiles>>

watchVars == <<bDisk, bLoaded, bTimer>>

bootVars == <<bpc, bCli, bBots, bHandles, bExit, nReloads, watchVars>>

mwVars == <<mAllowed, mMax, mWindowMs, mNow, mStore, mLog>>

dlVars == <<dpc, dDir, dFiles, dNext, dDelivered, dFailed, sentCount, dReturned>>

slugVars == <<spc, sName, sCwd, sAbsCwd, sSlug, sProjectSlug>>

streamVars == <<tpc, tEngine, tSink, tLines, tPending, tState, tBefore, tChunk,
                tChunks, tCode, tResult>>

promptVars == <<qRunning, activePrompts, qMsgs, qReplying, qTap, qData, qLog, nTaps>>

raceVars == <<xPolling, xQueue, xHandling, xSession, xEpoch, xSavedEpoch, nSent>>

lateVars == <<streamVars, promptVars, raceVars>>

moreVars == <<bootVars, mwVars, dlVars, slugVars, lateVars>>

earlyVars == <<bootVars, mwVars, dlVars, slugVars, ctxVars, resetVars, execVars,
               argVars, handlerVars>>

extVars == <<ctxVars, resetVars, moreVars>>

vars == <<execVars, argVars, handlerVars, extVars>>

NoEvent == [null |-> TRUE]
NoSpawnErr == [message |-> <<>>, code |-> 0]

\* ------------------------------------------------------ one execute() call
ExecInit ==
  /\ engine \in Engines
  /\ gramCtx \in BOOLEAN
  /\ onProgress \in BOOLEAN
  /\ gramCtx => onProgress
  /\ pc = "start"
  /\ prompt = <<>>
  /\ stderrOutput = <<>>
  /\ lastResult = NoResult
  /\ currentSessionId = UNDEF
  /\ lastAssistantText = <<>>
  /\ stdout = <<>>
  /\ progress = <<>>
  /\ promise = Pending
  /\ nChunks = 0
  /\ nErrChunks = 0
  /\ exitCode = 0
  /\ spawnErr = NoSpawnErr
  /\ lastResultEv = NoEvent

\* `await buildContextualPrompt(options, ctx)`: an exception leaves the
\* async function and rejects the promise it returned.
BuildPrompt ==
  /\ pc = "start"
  /\ \E h1 \in HookOutcomes, h2 \in HookOutcomes :
       LET built == BuildContextualPrompt(gramCtx, h1, h2, gramCtx)
       IN  IF built.threw
             THEN /\ promise' = Rejected
                  /\ pc' = "rejected"
                  /\ prompt' = prompt
             ELSE /\ promise' = promise
                  /\ pc' = "spawn"
                  /\ prompt' = built.text
  /\ UNCHANGED <<engine, gramCtx, onProgress, stderrOutput, lastResult,
                 currentSessionId, lastAssistantText, stdout, progress, nChunks,
                 nErrChunks, exitCode, spawnErr, lastResultEv,
                 argVars, handlerVars, extVars>>

\* spawn(cmd, args, ...) starts the child
SpawnOk ==
  /\ pc = "spawn"
  /\ pc' = "running"
  /\ UNCHANGED <<engine, gramCtx, onProgress, prompt, stderrOutput, lastResult,
                 currentSessionId, lastAssistantText, stdout, progress, promise,
                 nChunks, nErrChunks, exitCode, spawnErr, lastResultEv,
                 argVars, handlerVars, extVars>>

\* spawn(cmd, args, ...) fails: the child will emit `error`, then `close`
SpawnFail ==
  /\ pc = "spawn"
  /\ \E err \in SpawnErrors : spawnErr' = err
  /\ pc' = "failed"
  /\ UNCHANGED <<engine, gramCtx, onProgress, prompt, stderrOutput, lastResult,
                 currentSessionId, lastAssistantText, stdout, progress, promise,
                 nChunks, nErrChunks, exitCode, lastResultEv,
                 argVars, handlerVars, extVars>>

\* proc.stdout.on("data") of a line-event adapter
StdoutLines ==
  /\ pc = "running"
  /\ engine \in LineEngines
  /\ nChunks < MaxChunks
  /\ \E chunk \in LineChunks(engine) :
       LET st == OnLines(engine,
                         ParserState(currentSessionId, lastAssistantText, lastResult,
                                     progress, lastResultEv),
                         chunk, onProgress)
       IN  /\ currentSessionId' = st.sid
           /\ lastAssistantText' = st.text
           /\ lastResult' = st.res
           /\ progress' = st.prog
           /\ lastResultEv' = st.ev
  /\ nChunks' = nChunks + 1
  /\ UNCHANGED <<engine, gramCtx, onProgress, pc, prompt, stderrOutput, stdout,
                 promise, nErrChunks, exitCode, spawnErr,
                 argVars, handlerVars, extVars>>

\* proc.stdout.on("data") of a buffered adapter
StdoutText ==
  /\ pc = "running"
  /\ engine \in BufferedEngines
  /\ nChunks < MaxChunks
  /\ \E chunk \in TextChunks :
       /\ stdout' = stdout \o chunk
       /\ progress' = IF ReportsProgress(engine) /\ onProgress /\ Trim(chunk) # <<>>
                        THEN Append(progress, RespondingMsg(engine))
                        ELSE progress
  /\ nChunks' = nChunks + 1
  /\ UNCHANGED <<engine, gramCtx, onProgress, pc, prompt, stderrOutput, lastResult,
                 currentSessionId, lastAssistantText, promise, nErrChunks, exitCode,
                 spawnErr, lastResultEv,
                 argVars, handlerVars, extVars>>

\* proc.stderr.on("data")
StderrData ==
  /\ pc = "running"
  /\ nErrChunks < MaxStderrChunks
  /\ \E data \in StderrChunks : stderrOutput' = OnStderr(stderrOutput, data)
  /\ nErrChunks' = nErrChunks + 1
  /\ UNCHANGED <<engine, gramCtx, onProgress, pc, prompt, lastResult,
                 currentSessionId, lastAssistantText, stdout, progress, promise,
                 nChunks, exitCode, spawnErr, lastResultEv,
                 argVars, handlerVars, extVars>>

\* the value the close handler gives to resolve
OnClose(code) ==
  IF engine \in LineEngines
    THEN LineOnClose(engine, lastResult, code, lastAssistantText, currentSessionId,
                     stderrOutput)
    ELSE BufferedOnClose(engine, code, stdout, stderrOutput)

\* proc.on("close") after the child ran and exited
Close ==
  /\ pc = "running"
  /\ \E code \in ExitCodes :
       /\ exitCode' = code
       /\ promise' = Resolve(promise, OnClose(code))
  /\ pc' = "closed"
  /\ UNCHANGED <<engine, gramCtx, onProgress, prompt, stderrOutput, lastResult,
                 currentSessionId, lastAssistantText, stdout, progress, nChunks,
                 nErrChunks, spawnErr, lastResultEv,
                 argVars, handlerVars, extVars>>

\* proc.on("error"): the spawn failed
ErrorEvent ==
  /\ pc = "failed"
  /\ promise' = Resolve(promise, OnError(engine, spawnErr))
  /\ pc' = "errored"
  /\ UNCHANGED <<engine, gramCtx, onProgress, prompt, stderrOutput, lastResult,
                 currentSessionId, lastAssistantText, stdout, progress, nChunks,
                 nErrChunks, exitCode, spawnErr, lastResultEv,
                 argVars, handlerVars, extVars>>

\* proc.on("close") after a failed spawn: `close` follows `error`
CloseAfterError ==
  /\ pc = "errored"
  /\ exitCode' = spawnErr.code
  /\ promise' = Resolve(promise, OnClose(spawnErr.code))
  /\ pc' = "closed"
  /\ UNCHANGED <<engine, gramCtx, onProgress, prompt, stderrOutput, lastResult,
                 currentSessionId, lastAssistantText, stdout, progress, nChunks,
                 nErrChunks, spawnErr, lastResultEv,
                 argVars, handlerVars, extVars>>

\* the exec variables of a specification that makes no execute() call
ExecIdle ==
  /\ engine = "claude"
  /\ gramCtx = FALSE
  /\ onProgress = FALSE
  /\ pc = "idle"
  /\ prompt = <<>>
  /\ stderrOutput = <<>>
  /\ lastResult = NoResult
  /\ currentSessionId = UNDEF
  /\ lastAssistantText = <<>>
  /\ stdout = <<>>
  /\ progress = <<>>
  /\ promise = Pending
  /\ nChunks = 0
  /\ nErrChunks = 0
  /\ exitCode = 0
  /\ spawnErr = NoSpawnErr
  /\ lastResultEv = NoEvent

\* ------------------------------------------------- the argument vectors
\* options.continueSession is true, false or left out
ContinueValues == {"true", "false", "undefined"}

NoOpts == [engine |-> "claude", sessionId |-> UNDEF, continueSession |-> "undefined",
           engineSession |-> FALSE, model |-> UNDEF, yolo |-> FALSE,
           fullDisk |-> FALSE, network |-> FALSE, sandbox |-> FALSE]

\* the calls the model builds an argument vector for; the Codex flags vary
\* for Codex only, the sandbox flag for Antigravity only
OptionSpace ==
  { o \in [engine : Engines, sessionId : {UNDEF, <<"s0">>},
           continueSession : ContinueValues, engineSession : BOOLEAN,
           model : {UNDEF, <<"m1">>}, yolo : BOOLEAN, fullDisk : BOOLEAN,
           network : BOOLEAN, sandbox : BOOLEAN] :
      /\ (o.engine # "codex" => ~o.yolo /\ ~o.fullDisk /\ ~o.network)
      /\ (o.engine # "antigravity" => ~o.sandbox) }

PromptArg == <<"<prompt>">>
CwdArg == <<"/work">>
ApprovalMode == <<"default">>

\* mutant: the call's continueSession is not looked at
ContinueRequestedIgnoringCall(o) == o.engineSession

\* config.engineSession && continueSession !== false
ContinueRequested(o) == o.engineSession /\ o.continueSession # "false"

ModelArgs(flag, o) == IF Truthy(o.model) THEN <<flag>> \o o.model ELSE <<>>

\* mutant: fullDiskAccess is tested before dangerouslyEnableYolo
CodexTierArgsFullDiskFirst(o) ==
  IF o.fullDisk THEN <<"--sandbox", "danger-full-access", "--skip-git-repo-check">>
  ELSE IF o.yolo
    THEN <<"--dangerously-bypass-approvals-and-sandbox", "--skip-git-repo-check">>
  ELSE IF o.network
    THEN <<"--full-auto", "-c", "sandbox_workspace_write.network_access=true",
           "--skip-git-repo-check">>
  ELSE <<"--full-auto", "--skip-git-repo-check">>

\* the permission tier of the Codex adapter
CodexTierArgs(o) ==
  IF o.yolo THEN <<"--dangerously-bypass-approvals-and-sandbox", "--skip-git-repo-check">>
  ELSE IF o.fullDisk THEN <<"--sandbox", "danger-full-access", "--skip-git-repo-check">>
  ELSE IF o.network
    THEN <<"--full-auto", "-c", "sandbox_workspace_write.network_access=true",
           "--skip-git-repo-check">>
  ELSE <<"--full-auto", "--skip-git-repo-check">>

ClaudeArgs(o) ==
  <<"-p">> \o PromptArg \o <<"--output-format", "stream-json", "--verbose">>
    \o ModelArgs("--model", o)
    \o (IF Truthy(o.sessionId) THEN <<"--resume">> \o o.sessionId ELSE <<>>)

AntigravityArgs(o) ==
  <<"-p">> \o PromptArg \o <<"--output-format", "stream-json", "--approval-mode">>
    \o ApprovalMode
    \o ModelArgs("--model", o)
    \o (IF Truthy(o.sessionId) /\ ContinueRequested(o)
          THEN <<"--resume">> \o o.sessionId ELSE <<>>)
    \o (IF o.sandbox THEN <<"--sandbox">> ELSE <<>>)

CopilotArgs(o) ==
  <<"-p">> \o PromptArg \o <<"--allow-all">>
    \o ModelArgs("--model", o)
    \o (IF ContinueRequested(o) THEN <<"--continue">> ELSE <<>>)

CursorArgs(o) ==
  <<"--print", "--workspace">> \o CwdArg \o <<"--trust", "--force", "--model">>
    \o Or(o.model, <<"auto">>)
    \o (IF ContinueRequested(o) THEN <<"--continue">> ELSE <<>>)
    \o PromptArg

OpencodeArgs(o) ==
  <<"run">> \o ModelArgs("-m", o)
    \o (IF ContinueRequested(o) THEN <<"-c">> ELSE <<>>)
    \o PromptArg

\* mutant: the order of the adapter's doc comment, the model after the cwd
CodexArgsModelAfterCwd(o) ==
  <<"exec">> \o CodexTierArgs(o)
    \o (IF ContinueRequested(o) THEN <<"resume", "--last">> ELSE <<"-C">> \o CwdArg)
    \o ModelArgs("-m", o)
    \o PromptArg

CodexArgs(o) ==
  <<"exec">> \o CodexTierArgs(o) \o ModelArgs("-m", o)
    \o (IF ContinueRequested(o) THEN <<"resume", "--last">> ELSE <<"-C">> \o CwdArg)
    \o PromptArg

\* logger.warn of the most permissive Codex tier
YoloWarning == "Codex running with --yolo: all sandboxing and approvals disabled"

\* the warnings execute() logs while it builds the argument vector
LoggedWarnings(o) ==
  IF o.engine = "codex" /\ o.yolo THEN <<YoloWarning>> ELSE <<>>

\* the `args` each adapter's execute() hands to spawn
BuildArgs(o) ==
  CASE o.engine = "claude" -> ClaudeArgs(o)
    [] o.engine = "antigravity" -> AntigravityArgs(o)
    [] o.engine = "copilot" -> CopilotArgs(o)
    [] o.engine = "cursor" -> CursorArgs(o)
    [] o.engine = "opencode" -> OpencodeArgs(o)
    [] o.engine = "codex" -> CodexArgs(o)

ArgsIdle == opts = NoOpts /\ args = <<>> /\ logged = <<>>

ArgsInit == opts \in OptionSpace /\ args = <<>> /\ logged = <<>>

\* execute() up to the spawn call: the argument vector
ExecuteArgs ==
  /\ args = <<>>
  /\ opts \in OptionSpace
  /\ args' = BuildArgs(opts)
  /\ logged' = LoggedWarnings(opts)
  /\ UNCHANGED <<opts, execVars, handlerVars, extVars>>

\* ------------------------------------------------------------ the handlers
\* messages one user sends
MaxMessages == 2

\* a result text that is itself a JSON object carrying a session_id
JsonText(sid) == <<"{\"result\":\"r\",\"session_id\":\"">> \o sid \o <<"\"}">>

IsJsonText(out) ==
  Len(out) = 3 /\ out[1] = "{\"result\":\"r\",\"session_id\":\"" /\ out[3] = "\"}"

ParsedResponse(text, sessionId) == [text |-> text, sessionId |-> sessionId]

\* parse() of the Claude adapter
ClaudeParse(result) ==
  IF ~result.success
    THEN ParsedResponse(Or(result.error, <<"An unknown error occurred">>), UNDEF)
  ELSE IF IsJsonText(result.output)
    THEN ParsedResponse(<<"r">>, <<result.output[2]>>)
  ELSE ParsedResponse(Or(result.output, <<"No response received">>), UNDEF)

IsPacked(out) == out # <<>> /\ Head(out) = "{\"text\":"

\* parse() of the Antigravity adapter
AntigravityParse(result) ==
  IF ~result.success
    THEN ParsedResponse(Or(result.error, <<"An unknown error occurred">>), UNDEF)
  ELSE IF IsPacked(result.output)
    THEN ParsedResponse(Or(SubSeq(result.output, 2, Len(result.output) - 1),
                           <<"No response received">>),
                        result.sessionId)
  ELSE ParsedResponse(Or(result.output, <<"No response received">>), UNDEF)

\* parse() of the buffered adapters
BufferedParse(result) ==
  IF ~result.success
    THEN ParsedResponse(Or(result.error, <<"An unknown error occurred">>), UNDEF)
    ELSE ParsedResponse(Or(result.output, <<"No response received">>), UNDEF)

Parse(e, result) ==
  CASE e = "claude" -> ClaudeParse(result)
    [] e = "antigravity" -> AntigravityParse(result)
    [] OTHER -> BufferedParse(result)

\* results execute() of engine e resolves with
HandlerResults(e) ==
  LET sids == {UNDEF, <<"s1">>}
      texts == {<<>>, <<"a">>}
      codes == {0, 1}
      errs == {<<>>, <<"fatal", "\n">>}
      spawnFailures == { OnError(e, err) : err \in SpawnErrors }
  IN  CASE e = "claude" ->
             { ClaudeResult(ev, sid) :
                 ev \in { l \in ClaudeLines : l.type = "result" }
                          \cup { ResultEvent(FALSE, JsonText(<<"s9">>), UNDEF, <<>>) },
                 sid \in sids }
             \cup { LineOnClose(e, NoResult, c, t, sid, eo) :
                      c \in codes, t \in texts, sid \in sids, eo \in errs }
             \cup spawnFailures
        [] e = "antigravity" ->
             { GeminiResultOf(ev, sid, t) :
                 ev \in { l \in GeminiLines : l.type = "result" },
                 sid \in sids, t \in texts }
             \cup { LineOnClose(e, NoResult, c, t, sid, eo) :
                      c \in codes, t \in texts, sid \in sids, eo \in errs }
             \cup spawnFailures
        [] OTHER ->
             { BufferedOnClose(e, c, out, eo) :
                 c \in codes, out \in {<<>>, <<"o", "\n">>}, eo \in errs }
             \cup spawnFailures

\* getSessionId: `sessionData.currentSessionId || null`, null without a file
GetSessionId(file) == Or(file, UNDEF)

HandlersIdle ==
  /\ hEngine = "claude"
  /\ engineSession = FALSE
  /\ sessionFile = UNDEF
  /\ hpc = "off"
  /\ passedSid = UNDEF
  /\ wroteSession = FALSE
  /\ nMessages = 0

\* session.json may be left from an earlier run of the bot
HandlersInit ==
  /\ hEngine \in Engines
  /\ engineSession \in BOOLEAN
  /\ sessionFile \in {UNDEF, <<"s0">>}
  /\ hpc = "idle"
  /\ passedSid = UNDEF
  /\ wroteSession = FALSE
  /\ nMessages = 0

\* the sessionId the text handler puts in the options of execute()
TextSessionId(enabled, file) == IF enabled THEN GetSessionId(file) ELSE UNDEF

\* the sessionId the document handler puts in the options of execute()
DocumentSessionId(enabled, file) == GetSessionId(file)

\* the sessionId the text handler saves after execute(), UNDEF for none
TextSavedSession(enabled, result) ==
  IF enabled /\ Truthy(result.sessionId) THEN result.sessionId ELSE UNDEF

\* the sessionId the document handler saves after execute(), UNDEF for none
DocumentSavedSession(enabled, e, result) ==
  LET parsed == Parse(e, result)
  IN  IF Truthy(parsed.sessionId) THEN parsed.sessionId ELSE UNDEF

\* the text handler up to its `await ctx.engine.execute(...)`
TextBegin ==
  /\ hpc = "idle"
  /\ nMessages < MaxMessages
  /\ passedSid' = TextSessionId(engineSession, sessionFile)
  /\ wroteSession' = FALSE
  /\ hpc' = "text"
  /\ UNCHANGED <<hEngine, engineSession, sessionFile, nMessages, execVars, argVars, extVars>>

\* the text handler after execute() resolved
TextEnd ==
  /\ hpc = "text"
  /\ \E result \in HandlerResults(hEngine) :
       LET saved == TextSavedSession(engineSession, result)
       IN  /\ sessionFile' = IF saved # UNDEF THEN saved ELSE sessionFile
           /\ wroteSession' = (saved # UNDEF)
  /\ hpc' = "idle"
  /\ nMessages' = nMessages + 1
  /\ UNCHANGED <<hEngine, engineSession, passedSid, execVars, argVars, extVars>>

\* the document handler up to its `await ctx.engine.execute(...)`
DocumentBegin ==
  /\ hpc = "idle"
  /\ nMessages < MaxMessages
  /\ passedSid' = DocumentSessionId(engineSession, sessionFile)
  /\ wroteSession' = FALSE
  /\ hpc' = "document"
  /\ UNCHANGED <<hEngine, engineSession, sessionFile, nMessages, execVars, argVars, extVars>>

\* the document handler after execute() resolved
DocumentEnd ==
  /\ hpc = "document"
  /\ \E result \in HandlerResults(hEngine) :
       LET saved == DocumentSavedSession(engineSession, hEngine, result)
       IN  /\ sessionFile' = IF saved # UNDEF THEN saved ELSE sessionFile
           /\ wroteSession' = (saved # UNDEF)
  /\ hpc' = "idle"
  /\ nMessages' = nMessages + 1
  /\ UNCHANGED <<hEngine, engineSession, passedSid, execVars, argVars, extVars>>

\* execute() rejected: the handler's catch block replies with the error
HandlerCatch ==
  /\ hpc \in {"text", "document"}
  /\ hpc' = "idle"
  /\ nMessages' = nMessages + 1
  /\ UNCHANGED <<hEngine, engineSession, sessionFile, passedSid, wroteSession,
                 execVars, argVars, extVars>>

\* ------------------------------------------------ the context of a project
\* runs of runBotsForConfig in one process (start-up and hot reloads)
MaxLoads == 2
\* calls of resolveContext in one process
MaxResolves == 2

\* first names a sender may carry: Telegram takes any text
SenderNames == {<<"Ann">>, <<"@{id}">>, <<"${HOME}">>}

\* the `context` blocks of the config file: [root, project]
ConfigScenarios ==
  { [root |-> CtxNull, project |-> CtxNull],
    [root |-> CtxMap(<< <<"tag", <<"root">> >>, <<"only.root", <<"r">> >> >>),
     project |-> CtxMap(<< <<"tag", <<"proj">> >>, <<"project.name", <<"custom">> >> >>)],
    [root |-> CtxNull,
     project |-> CtxMap(<< <<"A", <<"${B}">> >>, <<"B", <<"@{date}">> >> >>)],
    [root |-> CtxMap(<< <<"B", <<"@{date}">> >> >>),
     project |-> CtxMap(<< <<"A", <<"<", "${B}", ">">> >> >>)],
    [root |-> CtxNull,
     project |-> CtxMap(<< <<"v", <<"${USER}", " ", "${HOME}", " ", "${NOPE}", " ",
                               "${bot.userId}">> >>,
                        <<"USER", <<"ctx-user">> >> >>)],
    [root |-> CtxMap(<< <<"first", <<"${B}">> >> >>),
     project |-> CtxMap(<< <<"B", <<"${HOME}">> >>, <<"last", <<"${B}">> >> >>)],
    [root |-> CtxMap(<< <<"sha", <<"#{rev}">> >> >>),
     project |-> CtxMap(<< <<"now", <<"@{date}">> >>,
                        <<"mix", <<"#{rev}", "-", "@{date}", "#{false}", "@{false}",
                                 "@{sleep}", "#{nosuch}">> >> >>)],
    [root |-> CtxMap(<< <<"p", <<"${constructor}">> >> >>), project |-> CtxNull] }

CtxIdle ==
  /\ cpc = "off"
  /\ rootContext = CtxNull
  /\ projectContext = CtxNull
  /\ configContext = CtxNull
  /\ shellCache = <<>>
  /\ shellLog = <<>>
  /\ nLoads = 0
  /\ nResolved = 0
  /\ mergedRaw = <<>>
  /\ afterVars = <<>>
  /\ merged = CtxMap(<<>>)
  /\ hookLog = <<>>
  /\ from = NoFrom

CtxInit ==
  /\ cpc = "boot"
  /\ \E sc \in ConfigScenarios : rootContext = sc.root /\ projectContext = sc.project
  /\ configContext = CtxNull
  /\ shellCache = <<>>
  /\ shellLog = <<>>
  /\ nLoads = 0
  /\ nResolved = 0
  /\ mergedRaw = <<>>
  /\ afterVars = <<>>
  /\ merged = CtxMap(<<>>)
  /\ hookLog = <<>>
  /\ from = NoFrom

\* history: the load and the resolveContext call a command ran in
Stamp(runs, load, call) ==
  [i \in 1..Len(runs) |->
     [kind |-> runs[i].kind, key |-> runs[i].key, cmd |-> runs[i].cmd,
      load |-> load, call |-> call]]

\* runBotsForConfig for the project: resolveProjectConfig, then the boot
\* cache `config.context ? evaluateBootTimeShells(config.context) : {}`
RunBotsForConfig(root, project) ==
  LET context == ResolveProjectContext(root, project)
      boot == IF context.kind = "map"
                THEN EvaluateBootTimeShells(context.m, Len(shellLog))
                ELSE [m |-> <<>>, runs |-> <<>>]
  IN  /\ configContext' = context
      /\ shellCache' = boot.m
      /\ shellLog' = shellLog \o Stamp(boot.runs, nLoads + 1, nResolved)
      /\ nLoads' = nLoads + 1
      /\ cpc' = "ready"

\* runStart: the first load
RunStart ==
  /\ cpc = "boot"
  /\ RunBotsForConfig(rootContext, projectContext)
  /\ UNCHANGED <<rootContext, projectContext, nResolved, mergedRaw, afterVars, merged,
                 hookLog, from, resetVars, moreVars, execVars, argVars, handlerVars>>

\* the config watcher's callback: the bots are stopped and started again
\* from the files now on disk
ConfigReload ==
  /\ cpc = "ready"
  /\ nLoads < MaxLoads
  /\ \E sc \in ConfigScenarios :
       /\ rootContext' = sc.root
       /\ projectContext' = sc.project
       /\ RunBotsForConfig(sc.root, sc.project)
  /\ UNCHANGED <<nResolved, mergedRaw, afterVars, merged, hookLog,
                 from, resetVars, moreVars, execVars, argVars, handlerVars>>

\* mutant: the `@{}` pass runs before the `${}` pass
ResolveContextBeginShellsFirst ==
  /\ cpc = "ready"
  /\ nResolved < MaxResolves
  /\ \E name \in SenderNames :
       /\ from' = [first_name |-> name]
       /\ LET implicit == BuildImplicitContext([first_name |-> name])
              step2 == IF configContext.kind = "map"
                         THEN OverlayConfig(implicit.m, configContext.m, shellCache)
                         ELSE implicit.m
              step4 == MsgShellPass(step2, 1, Len(shellLog))
              step3 == AppVarPass(step4.m, 1)
          IN  /\ mergedRaw' = step2
              /\ afterVars' = step2
              /\ merged' = CtxMap(step3)
              /\ shellLog' = shellLog \o Stamp(step4.runs, nLoads, nResolved + 1)
  /\ hookLog' = <<>>
  /\ nResolved' = nResolved + 1
  /\ cpc' = "global"
  /\ UNCHANGED <<rootContext, projectContext, configContext, shellCache, nLoads,
                 resetVars, moreVars, execVars, argVars, handlerVars>>

\* resolveContext up to its first await: steps 1 to 4
ResolveContextBegin ==
  /\ cpc = "ready"
  /\ nResolved < MaxResolves
  /\ \E name \in SenderNames :
       /\ from' = [first_name |-> name]
       /\ LET implicit == BuildImplicitContext([first_name |-> name])
              step2 == IF configContext.kind = "map"
                         THEN OverlayConfig(implicit.m, configContext.m, shellCache)
                         ELSE implicit.m
              step3 == AppVarPass(step2, 1)
              step4 == MsgShellPass(step3, 1, Len(shellLog))
          IN  /\ mergedRaw' = step2
              /\ afterVars' = step3
              /\ merged' = CtxMap(step4.m)
              /\ shellLog' = shellLog \o Stamp(step4.runs, nLoads, nResolved + 1)
  /\ hookLog' = <<>>
  /\ nResolved' = nResolved + 1
  /\ cpc' = "global"
  /\ UNCHANGED <<rootContext, projectContext, configContext, shellCache, nLoads,
                 resetVars, moreVars, execVars, argVars, handlerVars>>

\* one hook stage: merged = await loadAndRunHook(path, merged, logger)
HookStage(stage, outcome) ==
  /\ merged' = LoadAndRunHook(outcome, "hook." \o stage, merged)
  /\ hookLog' = Append(hookLog, [stage |-> stage, outcome |-> outcome,
                                 input |-> merged, output |-> merged'])

\* resolveContext step 5: the global hook
RunGlobalHook ==
  /\ cpc = "global"
  /\ \E outcome \in HookOutcomes : HookStage("global", outcome)
  /\ cpc' = "project"
  /\ UNCHANGED <<rootContext, projectContext, configContext, shellCache, shellLog,
                 nLoads, nResolved, mergedRaw, afterVars,
                 from, resetVars, moreVars, execVars, argVars, handlerVars>>

\* mutant: the project hook is handed the mapping the hooks started from
RunProjectHookOnPreHook ==
  /\ cpc = "project"
  /\ \E outcome \in HookOutcomes :
       /\ merged' = LoadAndRunHook(outcome, "hook.project", hookLog[1].input)
       /\ hookLog' = Append(hookLog, [stage |-> "project", outcome |-> outcome,
                                      input |-> hookLog[1].input, output |-> merged'])
  /\ cpc' = "ready"
  /\ UNCHANGED <<rootContext, projectContext, configContext, shellCache, shellLog,
                 nLoads, nResolved, mergedRaw, afterVars,
                 from, resetVars, moreVars, execVars, argVars, handlerVars>>

\* resolveContext step 6 and the return: the project hook
RunProjectHook ==
  /\ cpc = "project"
  /\ \E outcome \in HookOutcomes : HookStage("project", outcome)
  /\ cpc' = "ready"
  /\ UNCHANGED <<rootContext, projectContext, configContext, shellCache, shellLog,
                 nLoads, nResolved, mergedRaw, afterVars,
                 from, resetVars, moreVars, execVars, argVars, handlerVars>>

\* ------------------------------------------------------- the agent facade
NoCall == [made |-> FALSE]

\* executeClaudeQuery: fullPrompt (the context header is built only for a
\* gramCtx, the note appended only for a downloadsPath) and the argument
\* vector
ExecutorArgs(o) ==
  LET contextualPrompt == IF o.gramCtx
                            THEN FormatContextPrompt(ImplicitContext, o.prompt)
                            ELSE o.prompt
      fullPrompt == IF Truthy(o.downloadsPath)
                      THEN contextualPrompt \o DownloadsNote ELSE contextualPrompt
  IN  <<"-p">> \o fullPrompt \o <<"--output-format", "stream-json", "--verbose">>
        \o (IF Truthy(o.sessionId) THEN <<"--resume">> \o o.sessionId ELSE <<>>)

\* mutant: the user's stored session is resumed
AgentRequestResumes(text, options) ==
  LET o == [prompt |-> text, userDir |-> <<>>, gramCtx |-> FALSE,
            downloadsPath |-> UNDEF, sessionId |-> rSession,
            continueSession |-> "undefined", onProgress |-> options.onProgress]
  IN  [made |-> TRUE, engine |-> "claude", options |-> o, args |-> ExecutorArgs(o)]

\* createAgent(ctx).call(prompt, options) up to its await: the call it makes
\* is executeClaudeQuery({prompt, userDir: "", onProgress}, ctx), whatever
\* config.engine and options.continueSession are
AgentRequest(text, options) ==
  LET o == [prompt |-> text, userDir |-> <<>>, gramCtx |-> FALSE,
            downloadsPath |-> UNDEF, sessionId |-> UNDEF,
            continueSession |-> "undefined", onProgress |-> options.onProgress]
  IN  [made |-> TRUE, engine |-> "claude", options |-> o, args |-> ExecutorArgs(o)]

\* mutant: a failed result is returned like a successful one
AgentOutcomeNeverThrows(result) == [threw |-> FALSE, text |-> result.output]

\* createAgent(ctx).call after the await: throw on a failed result, else
\* return result.output
AgentOutcome(result) ==
  IF ~result.success
    THEN [threw |-> TRUE, text |-> Coalesce(result.error, <<"Agent call failed">>)]
    ELSE [threw |-> FALSE, text |-> result.output]

\* ----------------------------------------------------------- session reset
ActiveResetEngines == {"copilot", "codex", "opencode", "cursor"}

EngineSessionMsg == <<"hi!">>
StartingMsg == <<"_Starting new session..._">>
DefaultCleanTemplate == <<"Session reset. Your next message starts a new conversation.">>
DefaultDone == <<"done!">>

\* the prompt of a skill command without arguments: skillEntry.skillPrompt
SkillPrompt == <<"Summarise the repository.">>

NoRenewal == [threw |-> FALSE, text |-> UNDEF]

NoFiles == [uploads |-> {}, downloads |-> {}]

ResetIdle ==
  /\ rpc = "off"
  /\ rEngine = "claude"
  /\ rTrigger = "clean"
  /\ rSessionReset = FALSE
  /\ rSession = UNDEF
  /\ rCall = NoCall
  /\ rRenewal = NoRenewal
  /\ rReplies = <<>>
  /\ rResult = NoResult
  /\ rFiles = NoFiles

ResetInit ==
  /\ rpc = "idle"
  /\ rEngine \in Engines
  /\ rTrigger \in {"clean", "reset", "skill"}
  /\ rSessionReset \in BOOLEAN
  /\ rSession \in {UNDEF, <<"s0">>}
  /\ rCall = NoCall
  /\ rRenewal = NoRenewal
  /\ rReplies = <<>>
  /\ rResult = NoResult
  /\ rFiles \in [uploads : SUBSET {"photo.jpg"}, downloads : SUBSET {"report.pdf"}]

\* options.silent of resetSession: every caller passes {silent: true}
rSilent == TRUE

\* resetSession up to the await of agent.call; clearSessionData removes
\* session.json and nothing else
ResetSessionBegin(silent) ==
  /\ rSession' = UNDEF
  /\ IF rEngine \in ActiveResetEngines
       THEN /\ rReplies' = Append(rReplies, StartingMsg)
            /\ rCall' = AgentRequest(EngineSessionMsg,
                                     [continueSession |-> "false", onProgress |-> FALSE])
            /\ rpc' = "renewing"
       ELSE /\ rReplies' = IF silent THEN rReplies
                           ELSE Append(rReplies, <<"New session started.">>)
            /\ rCall' = rCall
            /\ rpc' = "after"

\* mutant: /clean removes the user's directory as /reset does
CleanCommandClearsUserData ==
  /\ rpc = "idle"
  /\ rTrigger = "clean"
  /\ ResetSessionBegin(rSilent)
  /\ rFiles' = NoFiles
  /\ UNCHANGED <<rEngine, rTrigger, rSessionReset, rRenewal, rResult,
                 ctxVars, moreVars, execVars, argVars, handlerVars>>

\* the /clean command: resetSession(ctx, gramCtx, {silent: true})
CleanCommand ==
  /\ rpc = "idle"
  /\ rTrigger = "clean"
  /\ ResetSessionBegin(rSilent)
  /\ UNCHANGED <<rEngine, rTrigger, rSessionReset, rRenewal, rResult, rFiles,
                 ctxVars, moreVars, execVars, argVars, handlerVars>>

\* the /reset callback with action "y": clearUserData removes the user's
\* directory, then resetSession when config.commands.reset.sessionReset
ResetConfirmed ==
  /\ rpc = "idle"
  /\ rTrigger = "reset"
  /\ rFiles' = NoFiles
  /\ IF rSessionReset
       THEN ResetSessionBegin(rSilent)
       ELSE /\ rSession' = UNDEF
            /\ rpc' = "after"
            /\ UNCHANGED <<rCall, rReplies>>
  /\ UNCHANGED <<rEngine, rTrigger, rSessionReset, rRenewal, rResult,
                 ctxVars, moreVars, execVars, argVars, handlerVars>>

\* resetSession after agent.call settled: the status message is deleted;
\* the text (or the failure notice) is sent unless the caller asked for
\* silence
RenewalReturns ==
  /\ rpc = "renewing"
  /\ \E result \in HandlerResults(rCall.engine) :
       /\ rResult' = result
       /\ rRenewal' = AgentOutcome(result)
       /\ rReplies' =
            IF rSilent THEN rReplies
            ELSE IF rRenewal'.threw
              THEN Append(rReplies, <<"Failed to start new session. Please try again.">>)
              ELSE Append(rReplies, rRenewal'.text)
  /\ rpc' = "after"
  /\ UNCHANGED <<rEngine, rTrigger, rSessionReset, rSession, rCall, rFiles,
                 ctxVars, moreVars, execVars, argVars, handlerVars>>

\* /clean after resetSession: the confirmation message
CleanFinish ==
  /\ rpc = "after"
  /\ rTrigger = "clean"
  /\ rReplies' = Append(rReplies, DefaultCleanTemplate)
  /\ rpc' = "done"
  /\ UNCHANGED <<rEngine, rTrigger, rSessionReset, rSession, rCall, rRenewal,
                 rResult, rFiles, ctxVars, moreVars, execVars, argVars, handlerVars>>

\* the /reset callback after resetSession: the prompt is edited to "done!"
ResetFinish ==
  /\ rpc = "after"
  /\ rTrigger = "reset"
  /\ rReplies' = Append(rReplies, DefaultDone)
  /\ rpc' = "done"
  /\ UNCHANGED <<rEngine, rTrigger, rSessionReset, rSession, rCall, rRenewal,
                 rResult, rFiles, ctxVars, moreVars, execVars, argVars, handlerVars>>

\* a slash command that names a skill, up to the await of agent.call: the
\* status message, then agent.call(prompt, {onProgress})
SkillCommand ==
  /\ rpc = "idle"
  /\ rTrigger = "skill"
  /\ rReplies' = Append(rReplies, <<"_Processing..._">>)
  /\ rCall' = AgentRequest(SkillPrompt,
                           [continueSession |-> "undefined", onProgress |-> TRUE])
  /\ rpc' = "skill"
  /\ UNCHANGED <<rEngine, rTrigger, rSessionReset, rSession, rRenewal, rResult, rFiles,
                 ctxVars, moreVars, execVars, argVars, handlerVars>>

\* the skill command after agent.call settled: the text is sent, or the
\* notice "Skill failed: <message>"
SkillReturns ==
  /\ rpc = "skill"
  /\ \E result \in HandlerResults(rCall.engine) :
       /\ rResult' = result
       /\ rRenewal' = AgentOutcome(result)
       /\ rReplies' = IF rRenewal'.threw
                        THEN Append(rReplies, <<"Skill failed: ">> \o rRenewal'.text)
                        ELSE Append(rReplies, rRenewal'.text)
  /\ rpc' = "done"
  /\ UNCHANGED <<rEngine, rTrigger, rSessionReset, rSession, rCall, rFiles,
                 ctxVars, moreVars, execVars, argVars, handlerVars>>

\* ------------------------------------------------ start-up of the process
\* projects of the config file
MaxProjects == 2
\* runs of the config watcher's callback in one process
MaxReloads == 2
\* changes of the config files on disk while the process runs
MaxChanges == 2

Projects == 1..MaxProjects

BootIdle ==
  /\ bpc = "off"
  /\ bCli = [p \in Projects |-> TRUE]
  /\ bBots = <<>>
  /\ bHandles = {}
  /\ bExit = -1
  /\ nReloads = 0
  /\ bDisk = 0
  /\ bLoaded = 0
  /\ bTimer = FALSE

BootInit ==
  /\ bpc = "boot"
  /\ bCli \in [Projects -> BOOLEAN]
  /\ bBots = <<>>
  /\ bHandles = {}
  /\ bExit = -1
  /\ nReloads = 0
  /\ bDisk = 0
  /\ bLoaded = 0
  /\ bTimer = FALSE

\* startBot up to `await startedPromise`: engine.check() throws, and the
\* promise startBot returned is rejected, when the CLI is not available;
\* otherwise the bot is created and bot.start() called
StartBot(cli, p) == [project |-> p, st |-> IF cli[p] THEN "starting" ELSE "failed"]

\* contexts.map((ctx) => startBot(ctx)): one bot per project, in order
StartBots(cli) == [p \in Projects |-> StartBot(cli, p)]

\* the bots of the last runBotsForConfig
Batch == {i \in 1..Len(bBots) : i > Len(bBots) - MaxProjects}

\* the rejection of Promise.all is delivered before any bot's onStart
RejectionPending ==
  bpc \in {"starting", "reloading"} /\ \E i \in Batch : bBots[i].st = "failed"

\* process.exit: whatever runs is gone
Exited(bots) ==
  [i \in 1..Len(bots) |->
     [project |-> bots[i].project,
      st |-> IF bots[i].st \in {"starting", "polling"} THEN "gone" ELSE bots[i].st]]

\* h.stop() of every handle
Stopped(bots, handles) ==
  [i \in 1..Len(bots) |->
     [project |-> bots[i].project,
      st |-> IF i \in handles THEN "stopped" ELSE bots[i].st]]

\* runStart up to the await of Promise.all in runBotsForConfig
RunStartBegin ==
  /\ bpc = "boot"
  /\ bBots' = StartBots(bCli)
  /\ bpc' = "starting"
  /\ UNCHANGED <<bCli, bHandles, bExit, nReloads, watchVars, mwVars, dlVars,
                 slugVars,
                 ctxVars, resetVars, execVars, argVars, handlerVars, lateVars>>

\* onStart of bot.start(): the bot polls, startedPromise resolves and
\* startBot returns the handle
BotStarted ==
  /\ bpc \in {"starting", "reloading", "running"}
  /\ ~RejectionPending
  /\ \E i \in 1..Len(bBots) :
       /\ bBots[i].st = "starting"
       /\ bBots' = [bBots EXCEPT ![i].st = "polling"]
  /\ UNCHANGED <<bpc, bCli, bHandles, bExit, nReloads, watchVars, mwVars, dlVars,
                 slugVars,
                 ctxVars, resetVars, execVars, argVars, handlerVars, lateVars>>

\* mutant: the projects that failed are left out and the others kept
RunStartSkipsFailed ==
  /\ bpc = "starting"
  /\ RejectionPending
  /\ bHandles' = {i \in Batch : bBots[i].st # "failed"}
  /\ bpc' = "running"
  /\ UNCHANGED <<bBots, bExit, bCli, nReloads, watchVars, mwVars, dlVars,
                 slugVars,
                 ctxVars, resetVars, execVars, argVars, handlerVars, lateVars>>

\* runStart's catch: "Failed to start one or more bots — aborting",
\* process.exit(1)
RunStartAborts ==
  /\ bpc = "starting"
  /\ RejectionPending
  /\ bBots' = Exited(bBots)
  /\ bExit' = 1
  /\ bpc' = "exited"
  /\ UNCHANGED <<bCli, bHandles, nReloads, watchVars, mwVars, dlVars,
                 slugVars,
                 ctxVars, resetVars, execVars, argVars, handlerVars, lateVars>>

\* Promise.all fulfilled: `handles` holds every bot started
RunStartCompletes ==
  /\ bpc = "starting"
  /\ \A i \in Batch : bBots[i].st = "polling"
  /\ bHandles' = Batch
  /\ bpc' = "running"
  /\ UNCHANGED <<bCli, bBots, bExit, nReloads, watchVars, mwVars, dlVars,
                 slugVars,
                 ctxVars, resetVars, execVars, argVars, handlerVars, lateVars>>

\* a watched config file is added, changed or removed: schedule() sets the
\* debounce timer anew
ConfigChange ==
  /\ bpc \in {"running", "reloading"}
  /\ bDisk < MaxChanges
  /\ bDisk' = bDisk + 1
  /\ bTimer' = TRUE
  /\ UNCHANGED <<bpc, bCli, bBots, bHandles, bExit, nReloads, bLoaded, mwVars, dlVars,
                 slugVars, ctxVars, resetVars, execVars, argVars, handlerVars, lateVars>>

\* the debounce timer fires during a reload: `if (reloading) return`
WatcherBusy ==
  /\ bpc = "reloading"
  /\ bTimer
  /\ bTimer' = FALSE
  /\ UNCHANGED <<bpc, bCli, bBots, bHandles, bExit, nReloads, bDisk, bLoaded, mwVars,
                 dlVars, slugVars, ctxVars, resetVars, execVars, argVars, handlerVars,
                 lateVars>>

\* the debounce timer fires and the watcher's callback runs: every handle
\* is stopped; then the config is loaded again (it may not load) and
\* runBotsForConfig called
WatcherReload ==
  /\ bpc = "running"
  /\ bTimer
  /\ bTimer' = FALSE
  /\ nReloads < MaxReloads
  /\ nReloads' = nReloads + 1
  /\ \E loads \in BOOLEAN, cli \in [Projects -> BOOLEAN] :
       IF loads
         THEN /\ bCli' = cli
              /\ bBots' = Stopped(bBots, bHandles) \o StartBots(cli)
              /\ bLoaded' = bDisk
              /\ bpc' = "reloading"
         ELSE /\ bBots' = Stopped(bBots, bHandles)
              /\ UNCHANGED <<bCli, bpc, bLoaded>>
  /\ UNCHANGED <<bHandles, bExit, bDisk, mwVars, dlVars, slugVars,
                 ctxVars, resetVars, execVars, argVars, handlerVars, lateVars>>

\* the callback's catch: "Reload failed"; `handles` is not assigned
ReloadFails ==
  /\ bpc = "reloading"
  /\ RejectionPending
  /\ bpc' = "running"
  /\ UNCHANGED <<bCli, bBots, bHandles, bExit, nReloads, watchVars, mwVars, dlVars,
                 slugVars,
                 ctxVars, resetVars, execVars, argVars, handlerVars, lateVars>>

\* handles = await runBotsForConfig(...)
ReloadCompletes ==
  /\ bpc = "reloading"
  /\ \A i \in Batch : bBots[i].st = "polling"
  /\ bHandles' = Batch
  /\ bpc' = "running"
  /\ UNCHANGED <<bCli, bBots, bExit, nReloads, watchVars, mwVars, dlVars,
                 slugVars,
                 ctxVars, resetVars, execVars, argVars, handlerVars, lateVars>>

\* SIGINT or SIGTERM: every handle is stopped, process.exit(0)
Shutdown ==
  /\ bpc \in {"running", "reloading"}
  /\ bBots' = Exited(Stopped(bBots, bHandles))
  /\ bExit' = 0
  /\ bpc' = "exited"
  /\ UNCHANGED <<bCli, bHandles, nReloads, watchVars, mwVars, dlVars,
                 slugVars,
                 ctxVars, resetVars, execVars, argVars, handlerVars, lateVars>>

\* ------------------------------------------------------ the middleware chain
\* updates one bot handles
MaxUpdates == 3
\* the last value of Date.now(), in units of the clock
MaxNow == 2

\* senders: gramCtx.from?.id; NoUser is an update without a sender
Users == {1, 2}
NoUser == 0

\* values of rateLimit.max (z.number().positive()) as fractions: 1, 1.5, 2
MaxValues == {[num |-> 1, den |-> 1], [num |-> 3, den |-> 2], [num |-> 2, den |-> 1]}

NoEntry == [count |-> 0, windowStart |-> -1]

MwIdle ==
  /\ mAllowed = {}
  /\ mMax = [num |-> 1, den |-> 1]
  /\ mWindowMs = 1
  /\ mNow = 0
  /\ mStore = [u \in Users |-> NoEntry]
  /\ mLog = <<>>

MwInit ==
  /\ mAllowed \in SUBSET Users
  /\ mMax \in MaxValues
  /\ mWindowMs \in {1, 2}
  /\ mNow = 0
  /\ mStore = [u \in Users |-> NoEntry]
  /\ mLog = <<>>

\* mutant: an update without a sender passes a whitelist
AuthPassesAnonymous(allowed, userId) == allowed = {} \/ userId = NoUser \/ userId \in allowed

\* createAuthMiddleware: next() is called
AuthPasses(allowed, userId) ==
  allowed = {} \/ (userId # NoUser /\ userId \in allowed)

\* the rate limit middleware: the store afterwards, and whether next() is
\* called (otherwise the reply "Rate limit exceeded. ..." is sent)
RateLimit(store, userId, now, max, windowMs) ==
  IF userId = NoUser THEN [store |-> store, passed |-> TRUE]
  ELSE LET entry == store[userId] IN
    IF entry # NoEntry
      THEN IF now - entry.windowStart > windowMs
             THEN [store |-> [store EXCEPT ![userId] = [count |-> 1, windowStart |-> now]],
                   passed |-> TRUE]
           ELSE IF entry.count * max.den >= max.num
             THEN [store |-> store, passed |-> FALSE]
           ELSE [store |-> [store EXCEPT ![userId].count = entry.count + 1],
                 passed |-> TRUE]
      ELSE [store |-> [store EXCEPT ![userId] = [count |-> 1, windowStart |-> now]],
            passed |-> TRUE]

\* one update through bot.use(auth), bot.use(rateLimit) and on to the handlers
HandleUpdate ==
  /\ Len(mLog) < MaxUpdates
  /\ \E userId \in Users \cup {NoUser} :
       IF AuthPasses(mAllowed, userId)
         THEN LET r == RateLimit(mStore, userId, mNow, mMax, mWindowMs) IN
              /\ mStore' = r.store
              /\ mLog' = Append(mLog, [user |-> userId, at |-> mNow,
                                       outcome |-> IF r.passed THEN "passed" ELSE "limited"])
         ELSE /\ mStore' = mStore
              /\ mLog' = Append(mLog, [user |-> userId, at |-> mNow,
                                       outcome |-> "unauthorized"])
  /\ UNCHANGED <<mAllowed, mMax, mWindowMs, mNow, bootVars, dlVars, slugVars,
                 ctxVars, resetVars, execVars, argVars, handlerVars, lateVars>>

\* time passes
Tick ==
  /\ mNow < MaxNow
  /\ mNow' = mNow + 1
  /\ UNCHANGED <<mAllowed, mMax, mWindowMs, mStore, mLog, bootVars, dlVars, slugVars,
                 ctxVars, resetVars, execVars, argVars, handlerVars, lateVars>>

\* the interval of the rate limiter: expired entries are deleted
StoreCleanup ==
  /\ \E u \in Users : mStore[u] # NoEntry /\ mNow - mStore[u].windowStart > mWindowMs
  /\ mStore' = [u \in Users |->
                  IF mStore[u] # NoEntry /\ mNow - mStore[u].windowStart > mWindowMs
                    THEN NoEntry ELSE mStore[u]]
  /\ UNCHANGED <<mAllowed, mMax, mWindowMs, mNow, mLog, bootVars, dlVars, slugVars,
                 ctxVars, resetVars, execVars, argVars, handlerVars, lateVars>>

\* ------------------------------------------------------- sendDownloadFiles
\* files the downloads directory may hold
MaxFiles == 3

DownloadFiles == 1..MaxFiles

DlIdle ==
  /\ dpc = "off"
  /\ dDir = {}
  /\ dFiles = <<>>
  /\ dNext = 1
  /\ dDelivered = {}
  /\ dFailed = {}
  /\ sentCount = 0
  /\ dReturned = -1

DlInit ==
  /\ dpc = "idle"
  /\ dDir \in SUBSET DownloadFiles
  /\ dFiles = <<>>
  /\ dNext = 1
  /\ dDelivered = {}
  /\ dFailed = {}
  /\ sentCount = 0
  /\ dReturned = -1

\* readdir: the names of the directory's files
RECURSIVE Readdir(_)
Readdir(dir) ==
  IF dir = {} THEN <<>>
  ELSE LET f == CHOOSE x \in dir : \A y \in dir : x <= y
       IN  <<f>> \o Readdir(dir \ {f})

\* sendDownloadFiles up to the loop: 0 is returned when the directory
\* cannot be read or is empty
SendDownloadFilesBegin ==
  /\ dpc = "idle"
  /\ \E readable \in BOOLEAN :
       IF readable /\ dDir # {}
         THEN /\ dFiles' = Readdir(dDir)
              /\ dpc' = "loop"
              /\ dReturned' = dReturned
         ELSE /\ dFiles' = dFiles
              /\ dpc' = "done"
              /\ dReturned' = 0
  /\ UNCHANGED <<dDir, dNext, dDelivered, dFailed, sentCount, bootVars, mwVars, slugVars,
                 ctxVars, resetVars, execVars, argVars, handlerVars, lateVars>>

\* mutant: the file is unlinked before it is sent
SendFileUnlinksFirst ==
  /\ dpc = "loop"
  /\ dNext <= Len(dFiles)
  /\ LET f == dFiles[dNext] IN
     \E sent \in BOOLEAN, unlinked \in BOOLEAN :
       /\ dDir' = IF unlinked THEN dDir \ {f} ELSE dDir
       /\ dDelivered' = IF unlinked /\ sent THEN dDelivered \cup {f} ELSE dDelivered
       /\ dFailed' = IF unlinked /\ ~sent THEN dFailed \cup {f} ELSE dFailed
       /\ sentCount' = IF unlinked /\ sent THEN sentCount + 1 ELSE sentCount
  /\ dNext' = dNext + 1
  /\ UNCHANGED <<dpc, dFiles, dReturned, bootVars, mwVars, slugVars,
                 ctxVars, resetVars, execVars, argVars, handlerVars, lateVars>>

\* one turn of the loop: replyWithDocument, unlink, sentCount++; a throw of
\* either call ends the turn in the catch
SendFile ==
  /\ dpc = "loop"
  /\ dNext <= Len(dFiles)
  /\ LET f == dFiles[dNext] IN
     \E sent \in BOOLEAN, unlinked \in BOOLEAN :
       /\ dDelivered' = IF sent THEN dDelivered \cup {f} ELSE dDelivered
       /\ dFailed' = IF sent THEN dFailed ELSE dFailed \cup {f}
       /\ dDir' = IF sent /\ unlinked THEN dDir \ {f} ELSE dDir
       /\ sentCount' = IF sent /\ unlinked THEN sentCount + 1 ELSE sentCount
  /\ dNext' = dNext + 1
  /\ UNCHANGED <<dpc, dFiles, dReturned, bootVars, mwVars, slugVars,
                 ctxVars, resetVars, execVars, argVars, handlerVars, lateVars>>

\* return sentCount
SendDownloadFilesReturn ==
  /\ dpc = "loop"
  /\ dNext > Len(dFiles)
  /\ dReturned' = sentCount
  /\ dpc' = "done"
  /\ UNCHANGED <<dDir, dFiles, dNext, dDelivered, dFailed, sentCount, bootVars, mwVars,
                 slugVars, ctxVars, resetVars, execVars, argVars, handlerVars, lateVars>>

\* ------------------------------------------------------------------- slugs
\* A path is a sequence of one-character tokens.
\* characters of the `cwd` values enumerated
MaxCwdLen == 3

Letters == {"a", "M", "y", "P", "r", "o", "j", "e", "c", "t", "s", "u", "b"}
Digits == {"1"}
\* [a-zA-Z0-9_-]
SlugChars == Letters \cup Digits \cup {"_", "-"}
\* [/\\]
Separators == {"/", "\\"}

CwdAlphabet == {"a", "1", "/", "\\", " ", ".", "_", "-"}

ExampleCwd == <<".", "/", "M", "y", " ", "P", "r", "o", "j", "e", "c", "t", "/", "s", "u", "b">>

CwdValues ==
  {ExampleCwd} \cup UNION {[1..n -> CwdAlphabet] : n \in 1..MaxCwdLen}

\* the directory of the config file
ConfigDir == <<"/", "c">>

StartsWith(s, prefix) ==
  Len(s) >= Len(prefix) /\ SubSeq(s, 1, Len(prefix)) = prefix

\* s.replace(/[...]/g, "-") for the characters of `chars`
ReplaceIn(s, chars) == [i \in 1..Len(s) |-> IF s[i] \in chars THEN "-" ELSE s[i]]

\* s.replace(/[^...]/g, "-") for the characters outside `keep`
ReplaceOutside(s, keep) == [i \in 1..Len(s) |-> IF s[i] \in keep THEN s[i] ELSE "-"]

\* s.replace(/-+/g, "-")
RECURSIVE CollapseDashes(_)
CollapseDashes(s) ==
  IF Len(s) < 2 THEN s
  ELSE IF s[1] = "-" /\ s[2] = "-" THEN CollapseDashes(Tail(s))
  ELSE <<s[1]>> \o CollapseDashes(Tail(s))

\* s.replace(/^-|-$/g, "")
TrimDashes(s) ==
  LET a == IF s # <<>> /\ s[1] = "-" THEN Tail(s) ELSE s
  IN  IF a # <<>> /\ a[Len(a)] = "-" THEN SubSeq(a, 1, Len(a) - 1) ELSE a

\* deriveSlug
DeriveSlug(name, cwd) ==
  IF Truthy(name) THEN name
  ELSE LET a == IF StartsWith(cwd, <<".", "/">>) THEN SubSeq(cwd, 3, Len(cwd)) ELSE cwd
           b == IF StartsWith(a, <<"/">>) THEN Tail(a) ELSE a
           c == ReplaceIn(b, Separators)
           d == ReplaceOutside(c, SlugChars)
       IN  TrimDashes(CollapseDashes(d))

\* mutant: the leading dash is trimmed
ClaudeSlugTrimmed(absoluteCwd) ==
  TrimDashes(CollapseDashes(ReplaceOutside(absoluteCwd, SlugChars)))

\* claudeSlug
ClaudeSlug(absoluteCwd) ==
  CollapseDashes(ReplaceOutside(ReplaceIn(absoluteCwd, Separators), SlugChars))

\* the segments of a path between its "/"
RECURSIVE SplitPath(_)
SplitPath(path) ==
  IF \A i \in 1..Len(path) : path[i] # "/" THEN <<path>>
  ELSE LET k == CHOOSE i \in 1..Len(path) :
                  path[i] = "/" /\ \A j \in 1..(i - 1) : path[j] # "/"
       IN  <<SubSeq(path, 1, k - 1)>> \o SplitPath(SubSeq(path, k + 1, Len(path)))

\* the segments with "" and "." dropped and ".." taking back the one before
RECURSIVE NormalizeSegments(_, _)
NormalizeSegments(segs, acc) ==
  IF segs = <<>> THEN acc
  ELSE NormalizeSegments(
         Tail(segs),
         IF Head(segs) \in {<<>>, <<".">>} THEN acc
         ELSE IF Head(segs) = <<".", ".">>
           THEN (IF acc = <<>> THEN acc ELSE SubSeq(acc, 1, Len(acc) - 1))
         ELSE Append(acc, Head(segs)))

RECURSIVE JoinSegments(_)
JoinSegments(segs) ==
  IF segs = <<>> THEN <<>> ELSE <<"/">> \o Head(segs) \o JoinSegments(Tail(segs))

\* path.resolve(base, rel) of node:path (posix), base absolute
PathResolve(base, rel) ==
  LET from1 == IF StartsWith(rel, <<"/">>) THEN rel ELSE base \o <<"/">> \o rel
      segs == NormalizeSegments(SplitPath(from1), <<>>)
  IN  IF segs = <<>> THEN <<"/">> ELSE JoinSegments(segs)

SlugIdle ==
  /\ spc = "off"
  /\ sName = UNDEF
  /\ sCwd = <<>>
  /\ sAbsCwd = <<>>
  /\ sSlug = <<>>
  /\ sProjectSlug = <<>>

SlugInit ==
  /\ spc = "config"
  /\ sName \in {UNDEF, <<"b", "o", "t">>}
  /\ sCwd \in CwdValues
  /\ sAbsCwd = <<>>
  /\ sSlug = <<>>
  /\ sProjectSlug = <<>>

\* resolveProjectConfig: config.cwd and config.slug
ResolveProjectConfig ==
  /\ spc = "config"
  /\ sAbsCwd' = IF StartsWith(sCwd, <<"/">>) THEN sCwd ELSE PathResolve(ConfigDir, sCwd)
  /\ sSlug' = DeriveSlug(sName, sCwd)
  /\ spc' = "context"
  /\ UNCHANGED <<sName, sCwd, sProjectSlug, bootVars, mwVars, dlVars,
                 ctxVars, resetVars, execVars, argVars, handlerVars, lateVars>>

\* resolveContext step 1: "project.slug" is claudeSlug(projectCwd)
ResolveProjectSlug ==
  /\ spc = "context"
  /\ sProjectSlug' = ClaudeSlug(sAbsCwd)
  /\ spc' = "done"
  /\ UNCHANGED <<sName, sCwd, sAbsCwd, sSlug, bootVars, mwVars, dlVars,
                 ctxVars, resetVars, execVars, argVars, handlerVars, lateVars>>

\* --------------------------------------------------------- specifications
\* one execute() call, from prompt building to the settled promise
\* ------------------------- the stdout stream of a line-event adapter, as text
\* lines the child writes to stdout in one run
MaxStreamLines == 2

\* The JSON text of an event is `{`, its members, `}`; the members are one
\* token: "init" stands for the members of the init event, and so on.
MemberTokens(e) ==
  IF e = "claude" THEN {"init", "text", "tool", "result"}
                  ELSE {"init", "message", "tool_use", "result"}

\* the event a complete JSON text decodes to
EventOf(e, b) ==
  IF e = "claude"
    THEN CASE b = "init" -> SystemInit(<<"s1">>)
           [] b = "text" -> Assistant(<<TextBlock(<<"a">>)>>)
           [] b = "tool" -> Assistant(<<ToolUseBlock(<<"Read">>,
                                          [NoInput EXCEPT !.file_path = <<"/f">>])>>)
           [] b = "result" -> ResultEvent(FALSE, <<"r">>, <<"s2">>, <<>>)
    ELSE CASE b = "init" -> GeminiInit(<<"s1">>)
           [] b = "message" -> GeminiMessage("assistant", <<"a">>)
           [] b = "tool_use" -> GeminiToolUse(<<"read_file">>, NoArgs,
                                              [NoArgs EXCEPT !.path = <<"/f">>])
           [] b = "result" -> GeminiResult("success", NoError)

\* what the `catch` of the loop body sees: JSON.parse threw
ParseFailure(e) == IF e = "claude" THEN GarbageLine ELSE GeminiGarbage

\* JSON.parse(line): a text that is not a whole `{ members }` throws
JsonParse(e, line) ==
  IF Len(line) = 3 /\ line[1] = "{" /\ line[3] = "}" /\ line[2] \in MemberTokens(e)
    THEN EventOf(e, line[2])
    ELSE ParseFailure(e)

\* the lines a child writes: an event, a diagnostic line, a line of spaces
LineTexts(e) ==
  { <<"{", b, "}">> : b \in MemberTokens(e) } \cup { <<"warning">>, <<" ">> }

\* chunk.split("\n")
RECURSIVE SplitLines(_, _)
SplitLines(s, cur) ==
  IF s = <<>> THEN <<cur>>
  ELSE IF Head(s) = "\n" THEN <<cur>> \o SplitLines(Tail(s), <<>>)
  ELSE SplitLines(Tail(s), Append(cur, Head(s)))

\* chunk.split("\n").filter((line) => line.trim())
ChunkLines(chunk) ==
  SelectSeq(SplitLines(chunk, <<>>), LAMBDA line : Trim(line) # <<>>)

\* mutant: the first line that fails to decode ends the loop over the chunk
OnDataStopsAtFailure(e, st, chunk, hasSink) ==
  LET lines == ChunkLines(chunk)
      ok(i) == \A j \in 1..i : JsonParse(e, lines[j]) # ParseFailure(e)
      kept == SelectSeq([i \in 1..Len(lines) |-> [n |-> i, l |-> lines[i]]],
                        LAMBDA x : ok(x.n))
  IN  OnLines(e, st, [i \in 1..Len(kept) |-> JsonParse(e, kept[i].l)], hasSink)

\* proc.stdout.on("data"): each line of the chunk is decoded on its own, and
\* a line that does not decode is skipped by the `catch`
OnData(e, st, chunk, hasSink) ==
  LET lines == ChunkLines(chunk)
  IN  OnLines(e, st, [i \in 1..Len(lines) |-> JsonParse(e, lines[i])], hasSink)

\* the text of the stream: every line the child writes ends with "\n"
RECURSIVE StreamText(_)
StreamText(lines) ==
  IF lines = <<>> THEN <<>>
  ELSE Head(lines) \o <<"\n">> \o StreamText(Tail(lines))

FreshParser == ParserState(UNDEF, <<>>, NoResult, <<>>, NoEvent)

NoChunk == <<>>

StreamIdle ==
  /\ tpc = "off"
  /\ tEngine = "claude"
  /\ tSink = FALSE
  /\ tLines = <<>>
  /\ tPending = <<>>
  /\ tState = FreshParser
  /\ tBefore = FreshParser
  /\ tChunk = NoChunk
  /\ tChunks = 0
  /\ tCode = 0
  /\ tResult = NoResult

StreamInit ==
  /\ tpc = "running"
  /\ tEngine \in LineEngines
  /\ tSink \in BOOLEAN
  /\ \E n \in 1..MaxStreamLines : tLines \in [1..n -> LineTexts(tEngine)]
  /\ tPending = StreamText(tLines)
  /\ tState = FreshParser
  /\ tBefore = FreshParser
  /\ tChunk = NoChunk
  /\ tChunks = 0
  /\ tCode = 0
  /\ tResult = NoResult

\* a `data` event of stdout: the pipe delivers the next part of the stream,
\* cut at any place
StdoutData ==
  /\ tpc = "running"
  /\ tPending # <<>>
  /\ \E n \in 1..Len(tPending) :
       LET chunk == SubSeq(tPending, 1, n)
       IN  /\ tChunk' = chunk
           /\ tPending' = SubSeq(tPending, n + 1, Len(tPending))
           /\ tState' = OnData(tEngine, tState, chunk, tSink)
  /\ tBefore' = tState
  /\ tChunks' = tChunks + 1
  /\ UNCHANGED <<tpc, tEngine, tSink, tLines, tCode, tResult, promptVars, raceVars, earlyVars>>

\* proc.on("close") once the whole stream was delivered
StreamClose ==
  /\ tpc = "running"
  /\ tPending = <<>>
  /\ \E code \in {0, 1} :
       /\ tCode' = code
       /\ tResult' = LineOnClose(tEngine, tState.res, code, tState.text, tState.sid,
                                <<>>)
  /\ tpc' = "closed"
  /\ UNCHANGED <<tEngine, tSink, tLines, tPending, tState, tBefore, tChunk, tChunks,
                 promptVars, raceVars, earlyVars>>

\* --------------------------- /reset: confirmation prompts of one process
\* /reset commands that get their prompt message, over all bots
MaxPrompts == 1
\* taps on the buttons of prompt messages
MaxTaps == 1

\* the bots running in the process
Bots == {1, 2}

\* activePrompts.get(userId) === undefined
NoPrompt == 0

NoTap == [msg |-> 0, from |-> 0, action |-> ""]

\* a prompt message: the bot that sent it, the user in its buttons' data,
\* whether its inline keyboard is still shown, its timer, and how and by
\* which bot the prompt stopped being tracked
PromptMsg(b, u) ==
  [bot |-> b, user |-> u, keyboard |-> TRUE, timer |-> "armed", how |-> "none",
   by |-> 0]

PromptsIdle ==
  /\ qRunning = [b \in Bots |-> FALSE]
  /\ activePrompts = [u \in Users |-> NoPrompt]
  /\ qMsgs = <<>>
  /\ qReplying = {}
  /\ qTap = NoTap
  /\ qData = [b \in Bots |-> [u \in Users |-> FALSE]]
  /\ qLog = {}
  /\ nTaps = 0

PromptsInit ==
  /\ qRunning = [b \in Bots |-> TRUE]
  /\ activePrompts = [u \in Users |-> NoPrompt]
  /\ qMsgs = <<>>
  /\ qReplying = {}
  /\ qTap = NoTap
  /\ qData = [b \in Bots |-> [u \in Users |-> TRUE]]
  /\ qLog = {}
  /\ nTaps = 0

\* clearTimeout(entry.timer); activePrompts.delete(userId): the prompt the
\* entry of user u belongs to stops being tracked, by bot b's code
Untrack(msgs, u, how, b) ==
  LET id == activePrompts[u]
  IN  IF id = NoPrompt THEN msgs
      ELSE [msgs EXCEPT ![id].timer = IF @ = "armed" THEN "cancelled" ELSE @,
                        ![id].how = how, ![id].by = b]

\* api.editMessageReplyMarkup(chatId, messageId, { reply_markup: undefined })
\* through the api of bot b: only the bot that sent a message may edit it,
\* and the call may fail for a message of its own as well; every failure
\* is swallowed by the `catch`
EditOutcomes(msgs, id, b) ==
  IF id = NoPrompt THEN {msgs}
  ELSE {msgs} \cup (IF msgs[id].bot = b THEN {[msgs EXCEPT ![id].keyboard = FALSE]}
                                          ELSE {})

\* /reset of user u on bot b, up to `await gramCtx.reply(...)`:
\* invalidatePrompt(userId, botApi)
ResetCommand ==
  /\ \E b \in Bots, u \in Users :
       /\ qRunning[b]
       /\ <<b, u>> \notin qReplying
       /\ Len(qMsgs) + Cardinality(qReplying) < MaxPrompts
       /\ qMsgs' \in EditOutcomes(Untrack(qMsgs, u, "invalidated", b),
                                  activePrompts[u], b)
       /\ activePrompts' = [activePrompts EXCEPT ![u] = NoPrompt]
       /\ qReplying' = qReplying \cup {<<b, u>>}
  /\ UNCHANGED <<qRunning, qTap, qData, qLog, nTaps, streamVars, raceVars, earlyVars>>

\* the reply arrived: trackPrompt(userId, chatId, sent.message_id, ...)
\* starts the timer and sets the user's entry
PromptSent ==
  /\ \E p \in qReplying :
       /\ qMsgs' = Append(qMsgs, PromptMsg(p[1], p[2]))
       /\ activePrompts' = [activePrompts EXCEPT ![p[2]] = Len(qMsgs) + 1]
       /\ qReplying' = qReplying \ {p}
  /\ UNCHANGED <<qRunning, qTap, qData, qLog, nTaps, streamVars, raceVars, earlyVars>>

\* the timer of prompt message id fires: activePrompts.delete(userId), then
\* the keyboard is taken off the message
TimerFires ==
  /\ \E id \in 1..Len(qMsgs) :
       /\ qMsgs[id].timer = "armed"
       /\ activePrompts' = [activePrompts EXCEPT ![qMsgs[id].user] = NoPrompt]
       /\ qMsgs' \in EditOutcomes(
                       [qMsgs EXCEPT ![id].timer = "fired",
                                     ![id].how = IF @ = "none" THEN "timeout" ELSE @],
                       id, qMsgs[id].bot)
  /\ UNCHANGED <<qRunning, qReplying, qTap, qData, qLog, nTaps, streamVars, raceVars, earlyVars>>

\* a user taps a button of a prompt message that shows its keyboard: the
\* callback query is on its way to the bot
Tap ==
  /\ qTap = NoTap
  /\ nTaps < MaxTaps
  /\ \E id \in 1..Len(qMsgs), f \in Users, a \in {"y", "n"} :
       /\ qMsgs[id].keyboard
       /\ qTap' = [msg |-> id, from |-> f, action |-> a]
  /\ nTaps' = nTaps + 1
  /\ UNCHANGED <<qRunning, activePrompts, qMsgs, qReplying, qData, qLog,
                 streamVars, raceVars, earlyVars>>

\* mutant: the sender of the callback query is not compared with the target
HandleCallbackOfAnyone ==
  /\ qTap # NoTap
  /\ LET m == qMsgs[qTap.msg]
         targetUserId == m.user
         untracked == Untrack(qMsgs, targetUserId, "resolved", m.bot)
     IN  /\ qRunning[m.bot]
         /\ activePrompts' = [activePrompts EXCEPT ![targetUserId] = NoPrompt]
         /\ qMsgs' = [untracked EXCEPT ![qTap.msg].keyboard = FALSE]
         /\ qData' = IF qTap.action = "y"
                       THEN [qData EXCEPT ![m.bot][targetUserId] = FALSE]
                       ELSE qData
         /\ qLog' = qLog \cup {[msg |-> qTap.msg, from |-> qTap.from,
                                action |-> qTap.action, target |-> targetUserId,
                                bot |-> m.bot, prompt |-> m.how,
                                deleted |-> qTap.action = "y"]}
  /\ qTap' = NoTap
  /\ UNCHANGED <<qRunning, qReplying, nTaps, streamVars, raceVars, earlyVars>>

\* the callback handler of the bot that sent the message, for data
\* `r:<action>:<targetUserId>`
HandleCallback ==
  /\ qTap # NoTap
  /\ LET m == qMsgs[qTap.msg]
         targetUserId == m.user
         untracked == Untrack(qMsgs, targetUserId, "resolved", m.bot)
         entry == [msg |-> qTap.msg, from |-> qTap.from, action |-> qTap.action,
                   target |-> targetUserId, bot |-> m.bot, prompt |-> m.how]
     IN  /\ qRunning[m.bot]
         /\ IF qTap.from # targetUserId
              THEN /\ qLog' = qLog \cup {entry @@ [deleted |-> FALSE]}
                   /\ UNCHANGED <<activePrompts, qMsgs, qData>>
              ELSE /\ activePrompts' = [activePrompts EXCEPT ![targetUserId] = NoPrompt]
                   /\ qMsgs' = [untracked EXCEPT ![qTap.msg].keyboard = FALSE]
                   /\ qData' = IF qTap.action = "y"
                                 THEN [qData EXCEPT ![m.bot][targetUserId] = FALSE]
                                 ELSE qData
                   /\ qLog' = qLog \cup {entry @@ [deleted |-> qTap.action = "y"]}
  /\ qTap' = NoTap
  /\ UNCHANGED <<qRunning, qReplying, nTaps, streamVars, raceVars, earlyVars>>

\* stop() of the handle of bot b: clearAllPrompts(), then bot.stop()
BotStop ==
  /\ \E b \in Bots :
       /\ qRunning[b]
       /\ qRunning' = [qRunning EXCEPT ![b] = FALSE]
       /\ qMsgs' = [id \in 1..Len(qMsgs) |->
                      IF \E u \in Users : activePrompts[u] = id
                        THEN [qMsgs[id] EXCEPT
                                !.timer = IF @ = "armed" THEN "cancelled" ELSE @,
                                !.how = "cleared", !.by = b]
                        ELSE qMsgs[id]]
  /\ activePrompts' = [u \in Users |-> NoPrompt]
  /\ UNCHANGED <<qReplying, qTap, qData, qLog, nTaps, streamVars, raceVars, earlyVars>>

\* ----------------- the updates of one user to the bot instances of a project
\* updates the user sends
MaxSent == 3

\* the bot instances of the project in the process: the one `handles`
\* holds, and one more when a failed reload left a started bot behind
Instances == {1, 2}

NoUpdate == [kind |-> "none", passedSid |-> UNDEF, epoch |-> 0]

RaceIdle ==
  /\ xPolling = {}
  /\ xQueue = <<>>
  /\ xHandling = [i \in Instances |-> NoUpdate]
  /\ xSession = UNDEF
  /\ xEpoch = 0
  /\ xSavedEpoch = 0
  /\ nSent = 0

RaceInit ==
  /\ xPolling = {1}
  /\ xQueue = <<>>
  /\ xHandling = [i \in Instances |-> NoUpdate]
  /\ xSession \in {UNDEF, <<"s0">>}
  /\ xEpoch = 0
  /\ xSavedEpoch = 0
  /\ nSent = 0

\* the user sends a text message or /clean to the project's bot
UserSends ==
  /\ nSent < MaxSent
  /\ \E kind \in {"text", "clean"} : xQueue' = Append(xQueue, kind)
  /\ nSent' = nSent + 1
  /\ UNCHANGED <<xPolling, xHandling, xSession, xEpoch, xSavedEpoch,
                 streamVars, promptVars, earlyVars>>

\* a reload fails after the project's bot was started, so that no handle of
\* it is kept, and the next reload starts the project once more: a second
\* instance polls for the same bot while the first still runs
ReloadLeavesBot ==
  /\ xPolling = {1}
  /\ xPolling' = {1, 2}
  /\ UNCHANGED <<xQueue, xHandling, xSession, xEpoch, xSavedEpoch, nSent,
                 streamVars, promptVars, earlyVars>>

\* An instance takes the next update once the handler of the one before has
\* returned: the polling loop of bot.start() handles updates one at a time.
\* The text handler up to its `await ctx.engine.execute(...)`, with
\* config.engineSession set
RaceTextBegin ==
  /\ \E i \in xPolling :
       /\ xHandling[i] = NoUpdate
       /\ xQueue # <<>> /\ Head(xQueue) = "text"
       /\ xHandling' = [xHandling EXCEPT ![i] =
                          [kind |-> "text", passedSid |-> TextSessionId(TRUE, xSession),
                           epoch |-> xEpoch]]
  /\ xQueue' = Tail(xQueue)
  /\ UNCHANGED <<xPolling, xSession, xEpoch, xSavedEpoch, nSent,
                 streamVars, promptVars, earlyVars>>

\* the text handler after execute() resolved: saveSessionId
RaceTextEnd ==
  /\ \E i \in xPolling :
       /\ xHandling[i].kind = "text"
       /\ \E result \in HandlerResults("claude") :
            LET saved == TextSavedSession(TRUE, result)
            IN  /\ xSession' = IF saved # UNDEF THEN saved ELSE xSession
                /\ xSavedEpoch' = IF saved # UNDEF THEN xHandling[i].epoch
                                                   ELSE xSavedEpoch
       /\ xHandling' = [xHandling EXCEPT ![i] = NoUpdate]
  /\ UNCHANGED <<xPolling, xQueue, xEpoch, nSent, streamVars, promptVars, earlyVars>>

\* the /clean handler: resetSession calls clearSessionData
RaceClean ==
  /\ \E i \in xPolling :
       /\ xHandling[i] = NoUpdate
       /\ xQueue # <<>> /\ Head(xQueue) = "clean"
  /\ xQueue' = Tail(xQueue)
  /\ xSession' = UNDEF
  /\ xEpoch' = xEpoch + 1
  /\ UNCHANGED <<xPolling, xHandling, xSavedEpoch, nSent,
                 streamVars, promptVars, earlyVars>>

LateIdle == StreamIdle /\ PromptsIdle /\ RaceIdle

MoreIdle == BootIdle /\ MwIdle /\ DlIdle /\ SlugIdle /\ LateIdle

ExtIdle == CtxIdle /\ ResetIdle /\ MoreIdle

Init == ExecInit /\ ArgsIdle /\ HandlersIdle /\ ExtIdle

Next ==
  \/ BuildPrompt
  \/ SpawnOk
  \/ SpawnFail
  \/ StdoutLines
  \/ StdoutText
  \/ StderrData
  \/ Close
  \/ ErrorEvent
  \/ CloseAfterError

Spec == Init /\ [][Next]_vars

\* the argument vector of every call in OptionSpace
InitArgs == ExecIdle /\ ArgsInit /\ HandlersIdle /\ ExtIdle

NextArgs == ExecuteArgs

SpecArgs == InitArgs /\ [][NextArgs]_vars

\* the text and document handlers of one user
InitHandlers == ExecIdle /\ ArgsIdle /\ HandlersInit /\ ExtIdle

NextHandlers ==
  \/ TextBegin
  \/ TextEnd
  \/ DocumentBegin
  \/ DocumentEnd
  \/ HandlerCatch

SpecHandlers == InitHandlers /\ [][NextHandlers]_vars

\* the context of one project: loads and resolveContext calls
InitContext == ExecIdle /\ ArgsIdle /\ HandlersIdle /\ CtxInit /\ ResetIdle /\ MoreIdle

NextContext ==
  \/ RunStart
  \/ ConfigReload
  \/ ResolveContextBegin
  \/ RunGlobalHook
  \/ RunProjectHook

SpecContext == InitContext /\ [][NextContext]_vars

\* one session reset, by /clean or by a confirmed /reset
InitReset == ExecIdle /\ ArgsIdle /\ HandlersIdle /\ CtxIdle /\ ResetInit /\ MoreIdle

NextReset ==
  \/ CleanCommand
  \/ ResetConfirmed
  \/ RenewalReturns
  \/ CleanFinish
  \/ ResetFinish
  \/ SkillCommand
  \/ SkillReturns

SpecReset == InitReset /\ [][NextReset]_vars

\* start-up, hot reload and shutdown of the process
InitBoot ==
  /\ ExecIdle /\ ArgsIdle /\ HandlersIdle /\ CtxIdle /\ ResetIdle
  /\ BootInit /\ MwIdle /\ DlIdle /\ SlugIdle /\ LateIdle

NextBoot ==
  \/ RunStartBegin
  \/ BotStarted
  \/ RunStartAborts
  \/ RunStartCompletes
  \/ ConfigChange
  \/ WatcherBusy
  \/ WatcherReload
  \/ ReloadFails
  \/ ReloadCompletes
  \/ Shutdown

SpecBoot == InitBoot /\ [][NextBoot]_vars

\* the updates of one bot through its middleware
InitMiddleware ==
  /\ ExecIdle /\ ArgsIdle /\ HandlersIdle /\ CtxIdle /\ ResetIdle
  /\ BootIdle /\ MwInit /\ DlIdle /\ SlugIdle /\ LateIdle

NextMiddleware ==
  \/ HandleUpdate
  \/ Tick
  \/ StoreCleanup

SpecMiddleware == InitMiddleware /\ [][NextMiddleware]_vars

\* one sendDownloadFiles call
InitDownloads ==
  /\ ExecIdle /\ ArgsIdle /\ HandlersIdle /\ CtxIdle /\ ResetIdle
  /\ BootIdle /\ MwIdle /\ DlInit /\ SlugIdle /\ LateIdle

NextDownloads ==
  \/ SendDownloadFilesBegin
  \/ SendFile
  \/ SendDownloadFilesReturn

SpecDownloads == InitDownloads /\ [][NextDownloads]_vars

\* the slugs of one project, over the `cwd` values
InitSlug ==
  /\ ExecIdle /\ ArgsIdle /\ HandlersIdle /\ CtxIdle /\ ResetIdle
  /\ BootIdle /\ MwIdle /\ DlIdle /\ SlugInit /\ LateIdle

NextSlug ==
  \/ ResolveProjectConfig
  \/ ResolveProjectSlug

SpecSlug == InitSlug /\ [][NextSlug]_vars

\* the stdout stream of one child, cut into chunks at any place
EarlyIdle ==
  /\ ExecIdle /\ ArgsIdle /\ HandlersIdle /\ CtxIdle /\ ResetIdle
  /\ BootIdle /\ MwIdle /\ DlIdle /\ SlugIdle

InitStream == EarlyIdle /\ StreamInit /\ PromptsIdle /\ RaceIdle

NextStream ==
  \/ StdoutData
  \/ StreamClose

SpecStream == InitStream /\ [][NextStream]_vars

\* the /reset prompts of two bots in one process
InitPrompts == EarlyIdle /\ StreamIdle /\ PromptsInit /\ RaceIdle

NextPrompts ==
  \/ ResetCommand
  \/ PromptSent
  \/ TimerFires
  \/ Tap
  \/ HandleCallback
  \/ BotStop

SpecPrompts == InitPrompts /\ [][NextPrompts]_vars

\* the text messages and /clean commands of one user
InitRace == EarlyIdle /\ StreamIdle /\ PromptsIdle /\ RaceInit

NextRace ==
  \/ UserSends
  \/ ReloadLeavesBot
  \/ RaceTextBegin
  \/ RaceTextEnd
  \/ RaceClean

SpecRace == InitRace /\ [][NextRace]_vars

\* ------------------------------------------------------------------ claims
Resolved == promise.state = "resolved"

\* the child ran and its close handler has run
RanAndClosed == pc = "closed" /\ spawnErr = NoSpawnErr

Contains(s, t) == \E i \in 1..Len(s) : s[i] = t

\* C1: in the Claude adapter a decoded terminal result event decides the
\* result delivered at close: success is the negation of is_error, output is
\* the event's result text, sessionId is the event's session_id or else the
\* session id captured from init (if any); the text of earlier assistant
\* messages and the exit code do not show in it.
C1_ResultEventOverrides ==
  (engine = "claude" /\ RanAndClosed /\ lastResultEv # NoEvent) =>
    /\ Resolved
    /\ promise.value.success = ~lastResultEv.is_error
    /\ promise.value.output = Or(lastResultEv.result, <<>>)
    /\ IF Truthy(lastResultEv.session_id)
         THEN promise.value.sessionId = lastResultEv.session_id
         ELSE promise.value.sessionId \in {currentSessionId, UNDEF}

\* C1 witness: assistant text "a" and init id "s1" were captured, the child
\* exited non-zero, and the result carries the event's text and session id
C1_Witness ==
  /\ engine = "claude" /\ RanAndClosed /\ lastResultEv # NoEvent
  /\ lastAssistantText = <<"a">> /\ currentSessionId = <<"s1">> /\ exitCode # 0
  /\ Resolved
  /\ promise.value.output = <<"r">>
  /\ promise.value.sessionId = <<"s2">>
  /\ promise.value.success

\* C2 (as amended): at close a line-event adapter resolves with (1) the
\* captured terminal result if there is one, whatever the exit code; (2)
\* else, on exit code 0, a success whose output is lastAssistantText, or
\* "No response received" when lastAssistantText is empty; (3) else a failure
\* whose error is the collected stderr, or "<engine> exited with code N" when
\* no stderr was collected.
C2_ClosePriority ==
  (engine \in LineEngines /\ RanAndClosed) =>
    /\ Resolved
    /\ lastResult # NoResult => promise.value = lastResult
    /\ (lastResult = NoResult /\ exitCode = 0) =>
         /\ promise.value.success
         /\ promise.value.output =
              IF lastAssistantText = <<>> THEN <<"No response received">>
              ELSE lastAssistantText
    /\ (lastResult = NoResult /\ exitCode # 0) =>
         /\ ~promise.value.success
         /\ promise.value.error =
              IF Trim(stderrOutput) # <<>> THEN Trim(stderrOutput)
              ELSE <<ExitLabel(engine), " exited with code ", ToString(exitCode)>>

\* C2 witness: no result event, exit code 0 and no assistant text
C2_Witness ==
  /\ engine \in LineEngines /\ RanAndClosed /\ nChunks > 0
  /\ lastResult = NoResult /\ exitCode = 0 /\ lastAssistantText = <<>>
  /\ Resolved /\ promise.value.output = <<"No response received">>

\* C2 as stated: in case (2) the output is lastAssistantText
C2_Original ==
  (engine \in LineEngines /\ RanAndClosed) =>
    /\ Resolved
    /\ lastResult # NoResult => promise.value = lastResult
    /\ (lastResult = NoResult /\ exitCode = 0) =>
         /\ promise.value.success
         /\ promise.value.output = lastAssistantText
    /\ (lastResult = NoResult /\ exitCode # 0) =>
         /\ ~promise.value.success
         /\ promise.value.error =
              IF Trim(stderrOutput) # <<>> THEN Trim(stderrOutput)
              ELSE <<ExitLabel(engine), " exited with code ", ToString(exitCode)>>

\* C3: every result with success = false that execute() resolves with
\* carries a non-empty error text.
C3_FailureHasError ==
  (Resolved /\ ~promise.value.success) => Truthy(promise.value.error)

\* C4: when the spawn fails and the child emits `error`, execute() resolves
\* with success = false, empty output and the error text
\* "Failed to start <command>: <OS error message>".
C4_SpawnErrorResult ==
  (pc \in {"errored", "closed"} /\ spawnErr # NoSpawnErr) =>
    /\ Resolved
    /\ ~promise.value.success
    /\ promise.value.output = <<>>
    /\ promise.value.error =
         <<"Failed to start ", Cmd(engine), ": ">> \o spawnErr.message

\* C4 witness: the error handler has run for a failed spawn
C4_Witness == pc = "errored" /\ spawnErr # NoSpawnErr /\ Resolved

\* C5: the promise execute() returns is never rejected.
C5_NeverRejects == promise.state # "rejected"

C7_ExitCodeNamed ==
  (RanAndClosed /\ exitCode # 0 /\ stderrOutput = <<>> /\ lastResult = NoResult) =>
    /\ Resolved
    /\ ~promise.value.success
    /\ Contains(promise.value.error, ToString(exitCode))

\* C7 witness: exit code 2 after stdout output and a blank stderr chunk
C7_Witness ==
  /\ RanAndClosed /\ exitCode = 2 /\ stderrOutput = <<>> /\ lastResult = NoResult
  /\ nErrChunks > 0 /\ nChunks > 0 /\ engine \in BufferedEngines
  /\ Resolved

\* the argument vector a holds the continuation flag or subcommand of e
HasContinuation(e, a) ==
  CASE e \in {"copilot", "cursor"} -> Contains(a, "--continue")
    [] e = "opencode" -> Contains(a, "-c")
    [] e = "codex" ->
         \E i \in 1..(Len(a) - 1) : a[i] = "resume" /\ a[i + 1] = "--last"
    [] OTHER -> FALSE

\* C8: for Copilot, Cursor, OpenCode and Codex the continuation flag or
\* subcommand is in the argument vector if and only if config.engineSession
\* is set and the call did not pass continueSession = false.
C8_ContinuationFlag ==
  (opts.engine \in BufferedEngines /\ args # <<>>) =>
    (HasContinuation(opts.engine, args)
       <=> (opts.engineSession /\ opts.continueSession # "false"))

\* C8 witness: a call with continueSession = false on a session-enabled
\* project, whose argument vector has no continuation flag
C8_Witness ==
  /\ opts.engine \in BufferedEngines /\ args # <<>>
  /\ opts.engineSession /\ opts.continueSession = "false"
  /\ ~HasContinuation(opts.engine, args)

\* C9: a continuation-disabled call to the Claude adapter has no --resume
\* in its argument vector, even when the options carry a sessionId.
C9_NoResumeWhenDisabled ==
  (/\ opts.engine = "claude" /\ args # <<>>
   /\ (opts.continueSession = "false" \/ ~opts.engineSession)) =>
    ~Contains(args, "--resume")

\* C10: with config.engineSession off no message handler passes a sessionId
\* to execute() or writes session.json.
C10_SessionOnlyWhenEnabled ==
  (hpc # "off" /\ ~engineSession) => (passedSid = UNDEF /\ ~wroteSession)

\* ------------------------------------------------------------ session reset
\* C11: on a session reset of an active-reset engine the renewal prompt is
\* run by the project's own engine with continueSession = false in the
\* options the adapter receives, and the argument vector has no
\* continuation flag.
C11_RenewalContinuationDisabled ==
  (rEngine \in ActiveResetEngines /\ rCall.made /\ rTrigger # "skill") =>
    /\ rCall.engine = rEngine
    /\ rCall.options.prompt = EngineSessionMsg
    /\ rCall.options.continueSession = "false"
    /\ ~HasContinuation(rEngine, rCall.args)

\* C12: once /clean or a confirmed /reset with session reset has finished,
\* the text the renewal call returned is among the messages sent to the user.
C12_RenewalTextDelivered ==
  (rpc = "done" /\ rCall.made /\ ~rRenewal.threw /\ rTrigger # "skill") =>
    \E i \in 1..Len(rReplies) : rReplies[i] = rRenewal.text

\* -------------------------------------------------------------- Codex tier
\* the tiers whose flag is set (3 yolo, 2 full disk, 1 network), with the
\* default tier 0, and the one of highest precedence among them
SetTiers(o) ==
  {0} \cup (IF o.yolo THEN {3} ELSE {}) \cup (IF o.fullDisk THEN {2} ELSE {})
      \cup (IF o.network THEN {1} ELSE {})

HighestTier(o) == CHOOSE r \in SetTiers(o) : \A q \in SetTiers(o) : q <= r

\* C13: the Codex argument vector carries, right after "exec", the flags of
\* exactly the highest-precedence tier whose flag is set (yolo > full disk >
\* network > default), the sandbox-bypass flag if and only if
\* dangerouslyEnableYolo, and the yolo tier logs a warning on the call.
C13_CodexTierPrecedence ==
  (opts.engine = "codex" /\ args # <<>>) =>
    LET tier == HighestTier(opts) IN
    /\ Contains(args, "--dangerously-bypass-approvals-and-sandbox") <=> opts.yolo
    /\ Contains(args, "--dangerously-bypass-approvals-and-sandbox") <=> tier = 3
    /\ Contains(args, "danger-full-access") <=> tier = 2
    /\ Contains(args, "sandbox_workspace_write.network_access=true") <=> tier = 1
    /\ Contains(args, "--full-auto") <=> tier \in {0, 1}
    /\ args[1] = "exec"
    /\ args[2] \in {"--dangerously-bypass-approvals-and-sandbox", "--sandbox", "--full-auto"}
    /\ (tier = 3 => Contains(logged, YoloWarning))

\* C13 witness: all three flags set, the yolo tier alone is in the vector
C13_Witness ==
  /\ opts.engine = "codex" /\ opts.yolo /\ opts.fullDisk /\ opts.network
  /\ args # <<>>
  /\ Contains(args, "--dangerously-bypass-approvals-and-sandbox")
  /\ ~Contains(args, "--full-auto")
  /\ logged = <<YoloWarning>>

\* ------------------------------------------------------- context resolution
\* resolveContext is between its steps 4 and 6, or has just returned
InCall == cpc \in {"global", "project"}

Declared(k) == configContext.kind = "map" /\ HasKey(configContext.m, k)

CountTokens(value, tokens) == Cardinality({i \in 1..Len(value) : value[i] \in tokens})

\* the declared value of a key as the boot cache holds it
CachedOrDeclared(decl, k) ==
  IF HasToken(decl, BootShellTokens) THEN Get(shellCache, k) ELSE decl

\* C14: in the mapping built before the hooks every key has the value of the
\* last source declaring it, in the order implicit < root context < project
\* context; a project key overrides the root key of the same name.
C14_LaterSourceWins ==
  InCall =>
    /\ \A i \in 1..Len(mergedRaw) :
         LET k == mergedRaw[i][1] IN
         mergedRaw[i][2] =
           IF projectContext.kind = "map" /\ HasKey(projectContext.m, k)
             THEN CachedOrDeclared(Get(projectContext.m, k), k)
           ELSE IF rootContext.kind = "map" /\ HasKey(rootContext.m, k)
             THEN CachedOrDeclared(Get(rootContext.m, k), k)
           ELSE Get(BuildImplicitContext(from).m, k)
    /\ \A src \in {BuildImplicitContext(from), rootContext, projectContext} :
         \A j \in 1..Len(src.m) : HasKey(mergedRaw, src.m[j][1])

\* C14 witness: "tag" is declared at both levels and holds the project's
\* value; the project also overrides the implicit project.name
C14_Witness ==
  /\ InCall
  /\ rootContext.kind = "map" /\ HasKey(rootContext.m, "tag")
  /\ projectContext.kind = "map" /\ HasKey(projectContext.m, "tag")
  /\ Get(mergedRaw, "tag") = <<"proj">>
  /\ Get(mergedRaw, "project.name") = <<"custom">>
  /\ Get(mergedRaw, "only.root") = <<"r">>

\* the replacement the `${}` rule names for expression x: the mapping's value
\* when x is one of its keys, else the environment's, else the empty string
NamedValue(x, mapping) ==
  IF HasKey(mapping, x) THEN Get(mapping, x)
  ELSE IF HasKey(ProcessEnv, x) THEN Get(ProcessEnv, x)
  ELSE <<>>

RECURSIVE NamedAppVars(_, _)
NamedAppVars(value, mapping) ==
  IF value = <<>> THEN <<>>
  ELSE (IF Head(value) \in AppVarTokens
          THEN NamedValue(AppVarExpr(Head(value)), mapping) ELSE <<Head(value)>>)
       \o NamedAppVars(Tail(value), mapping)

\* the mapping in progress when step 3 reaches entry i
InProgress(i) ==
  [j \in 1..Len(mergedRaw) |-> IF j < i THEN afterVars[j] ELSE mergedRaw[j]]

\* C15: step 3 replaces every `${X}` by the in-progress mapping's value for
\* X when X is a key of it, otherwise by the environment's value of X,
\* otherwise by the empty string.
C15_AppVarResolution ==
  InCall =>
    \A i \in 1..Len(mergedRaw) :
      afterVars[i][2] = NamedAppVars(mergedRaw[i][2], InProgress(i))

\* the mapping handed to the first hook stage
PreHook == IF hookLog = <<>> THEN merged ELSE hookLog[1].input

\* the message-time runs of this call whose output is the token t
RunsOf(t) ==
  { n \in 1..Len(shellLog) :
      /\ shellLog[n].kind = "msg"
      /\ shellLog[n].call = nResolved
      /\ <<t>> = ExecSync(shellLog[n].cmd, n) }

Runs(kind, k) ==
  { n \in 1..Len(shellLog) : shellLog[n].kind = kind /\ shellLog[n].key = k }

C18_ThrowingHookKeepsMapping ==
  \A i \in 1..Len(hookLog) :
    hookLog[i].outcome \in {"throws", "mutates"} => hookLog[i].output = hookLog[i].input

\* keys of the stage's input that the hook did not return a new value for
KeptKeys(h) ==
  { j \in 1..Len(h.input.m) : h.input.m[j][1] # "hook." \o h.stage }

\* C19 as stated: after a hook returned extra keys the mapping has them and
\* still has every pre-hook key the hook did not redefine.
C19_Original ==
  \A i \in 1..Len(hookLog) :
    LET h == hookLog[i] IN
    h.outcome \in {"extra", "only"} =>
      /\ h.output.kind = "map"
      /\ HasKey(h.output.m, "hook." \o h.stage)
      /\ \A j \in KeptKeys(h) :
           /\ HasKey(h.output.m, h.input.m[j][1])
           /\ Get(h.output.m, h.input.m[j][1]) = h.input.m[j][2]

\* C19: the value a hook returns becomes the mapping: it has the returned
\* extra keys, and a pre-hook key exactly when the returned object has it
\* (all of them for {...context, extra}, none for a bare {extra}).
C19_HookReturnIsMapping ==
  \A i \in 1..Len(hookLog) :
    LET h == hookLog[i] IN
    h.outcome \in {"extra", "only"} =>
      /\ h.output.kind = "map"
      /\ HasKey(h.output.m, "hook." \o h.stage)
      /\ Get(h.output.m, "hook." \o h.stage) = HookValue
      /\ h.outcome = "extra" =>
           \A j \in KeptKeys(h) :
             /\ HasKey(h.output.m, h.input.m[j][1])
             /\ Get(h.output.m, h.input.m[j][1]) = h.input.m[j][2]
      /\ h.outcome = "only" => Len(h.output.m) = 1

\* C19 witness: the project hook returned {...context, "hook.project": "h"}
\* over a mapping that had the implicit keys
C19_Witness ==
  /\ Len(hookLog) = 2
  /\ hookLog[2].outcome = "extra"
  /\ hookLog[2].input.kind = "map"
  /\ HasKey(hookLog[2].input.m, "bot.userId")
  /\ HasKey(merged.m, "bot.userId")
  /\ HasKey(merged.m, "hook.project")

\* C20: the global hook stage runs first and the project stage is given
\* exactly its output; a stage whose hook file is absent returns what it was
\* given; resolveContext returns the output of the project stage.
C20_HookChain ==
  /\ Len(hookLog) >= 1 => hookLog[1].stage = "global"
  /\ Len(hookLog) = 2 =>
       /\ hookLog[2].stage = "project"
       /\ hookLog[2].input = hookLog[1].output
       /\ cpc = "ready" => merged = hookLog[2].output
  /\ \A i \in 1..Len(hookLog) :
       hookLog[i].outcome = "absent" => hookLog[i].output = hookLog[i].input

\* C20 witness: both hooks exist and add their key; the returned mapping
\* has the global hook's key under the project hook's
C20_Witness ==
  /\ cpc = "ready" /\ Len(hookLog) = 2
  /\ hookLog[1].outcome = "extra" /\ hookLog[2].outcome = "extra"
  /\ HasKey(merged.m, "hook.global") /\ HasKey(merged.m, "hook.project")
  /\ ~HasKey(hookLog[1].input.m, "hook.global")

\* the placeholders of one kind whose command fails
FailedTokens(kind) == {t \in ShellTokens(kind) : ShellCmd(t) \in FailingCmds}

WithoutFailed(kind, value) == SelectSeq(value, LAMBDA t : t \notin FailedTokens(kind))

\* tok is what some run of the command of placeholder t wrote, trimmed
IsOutputOf(tok, t) ==
  \E n \in 1..Len(shellLog) :
    /\ shellLog[n].cmd = ShellCmd(t)
    /\ <<tok>> = Trim(ShellStdout(ShellCmd(t), n))

\* after is before with every failing placeholder of the kind gone, every
\* other placeholder of the kind replaced by its command's output and the
\* rest of the text kept
ShellsReplaced(kind, before, after) ==
  LET want == WithoutFailed(kind, before) IN
  /\ Len(after) = Len(want)
  /\ \A j \in 1..Len(want) :
       IF want[j] \in ShellTokens(kind)
         THEN IsOutputOf(after[j], want[j])
         ELSE after[j] = want[j]

\* C21: a `#{}` or `@{}` command that exits non-zero, times out or cannot be
\* spawned is replaced by the empty string; the rest of the value and every
\* other key are still resolved, and evaluateBootTimeShells and
\* resolveContext go on to return a value for every key.
C21_FailedShellIsEmpty ==
  /\ (cpc \notin {"off", "boot"} /\ configContext.kind = "map") =>
       /\ Len(shellCache) = Len(configContext.m)
       /\ \A i \in 1..Len(configContext.m) :
            /\ shellCache[i][1] = configContext.m[i][1]
            /\ ShellsReplaced("boot", configContext.m[i][2], shellCache[i][2])
  /\ InCall =>
       /\ Len(PreHook.m) = Len(afterVars)
       /\ \A i \in 1..Len(afterVars) :
            /\ PreHook.m[i][1] = afterVars[i][1]
            /\ ShellsReplaced("msg", afterVars[i][2], PreHook.m[i][2])

\* C21 witness: "mix" holds a command of each failing kind at boot and at
\* message time next to two that succeed; what is left is the two outputs
\* around the literal text, and the key "now" was resolved as well
C21_Witness ==
  /\ InCall
  /\ Declared("mix") /\ Declared("now")
  /\ \A c \in FailingCmds : \E n \in 1..Len(shellLog) : shellLog[n].cmd = c
  /\ \E n \in 1..Len(shellLog) : shellLog[n].cmd = "false" /\ shellLog[n].kind = "boot"
  /\ \E n \in 1..Len(shellLog) : shellLog[n].cmd = "false" /\ shellLog[n].kind = "msg"
  /\ Len(Get(PreHook.m, "mix")) = 3
  /\ Get(PreHook.m, "mix")[2] = "-"
  /\ IsOutputOf(Get(PreHook.m, "now")[1], "@{date}")

CallerPrompt == IF rTrigger = "skill" THEN SkillPrompt ELSE EngineSessionMsg

\* C23: the argument vector of an agent call holds the caller's prompt and
\* nothing added to it: no context header, no note about the downloads
\* directory, no `--resume` and no session id, whatever session the user has
\* stored.
C23_AgentPromptAsIs ==
  rCall.made =>
    /\ rCall.args = <<"-p">> \o CallerPrompt \o <<"--output-format", "stream-json", "--verbose">>
    /\ ~Contains(rCall.args, "--resume")
    /\ ~Contains(rCall.args, "# Context\n")
    /\ \A i \in 1..Len(DownloadsNote) : ~Contains(rCall.args, DownloadsNote[i])
    /\ rCall.options.sessionId = UNDEF

\* C23 witness: a skill command of a user with a stored session
C23_Witness ==
  /\ rCall.made /\ rTrigger = "skill"
  /\ rSession = <<"s0">>
  /\ rCall.args[2] = SkillPrompt[1]

\* C25: /clean leaves no session handle for getSessionId to return and
\* changes nothing in the user's uploads and downloads directories.
C25_CleanKeepsFiles ==
  /\ [](rTrigger = "clean" /\ rpc \in {"renewing", "after", "done"}
          => GetSessionId(rSession) = UNDEF)
  /\ [][rTrigger = "clean" => rFiles' = rFiles]_vars

\* C25 witness: /clean has finished for a user with a file in each directory
C25_Witness ==
  /\ rTrigger = "clean" /\ rpc = "done"
  /\ rSession = UNDEF
  /\ rFiles = [uploads |-> {"photo.jpg"}, downloads |-> {"report.pdf"}]
  /\ rReplies[Len(rReplies)] = DefaultCleanTemplate

\* ------------------------------------------------- sender-supplied context
\* C30: resolveContext runs only shell commands that stand in the operator's
\* config context, and leaves the sender's first name as the sender wrote
\* it: its text is neither run as `@{...}` nor expanded as `${...}`.
C30_SenderTextNotEvaluated ==
  (InCall /\ ~Declared("bot.firstName")) =>
    /\ \A n \in 1..Len(shellLog) :
         (shellLog[n].kind = "msg" /\ shellLog[n].call = nResolved)
           => Declared(shellLog[n].key)
    /\ Get(afterVars, "bot.firstName") = from.first_name
    /\ Get(PreHook.m, "bot.firstName") = from.first_name

\* ----------------------------------------------------------------- start-up
\* the start-up of the process is over: runStart got past runBotsForConfig
\* or has exited, and no reload has replaced the projects' CLIs since
BootOver == bpc \in {"running", "exited"} /\ nReloads = 0 /\ bExit # 0

\* C24 as stated: when the CLI of a project fails check() at boot, the bot
\* of every other project whose CLI is available is started and runs.
C24_Original ==
  BootOver =>
    \A p \in Projects, q \in Projects :
      (~bCli[p] /\ bCli[q]) =>
        \E i \in 1..Len(bBots) : bBots[i].project = q /\ bBots[i].st = "polling"

\* C24: when the CLI of a project fails check() at the start of the process,
\* start-up is halted for every project: runStart exits with status 1 and no
\* bot of any project is left starting or polling.
C24_BootFailureAbortsAll ==
  (BootOver /\ \E p \in Projects : ~bCli[p]) =>
    /\ bpc = "exited" /\ bExit = 1
    /\ bHandles = {}
    /\ \A i \in 1..Len(bBots) : bBots[i].st \notin {"starting", "polling"}

\* C24 witness: one project's CLI is missing, another's is available, and
\* the process has exited with the other's bot gone before it polled
C24_Witness ==
  /\ bpc = "exited" /\ bExit = 1
  /\ \E p \in Projects, q \in Projects :
       /\ ~bCli[p] /\ bCli[q]
       /\ \E i \in 1..Len(bBots) : bBots[i].project = p /\ bBots[i].st = "failed"
       /\ \E i \in 1..Len(bBots) : bBots[i].project = q /\ bBots[i].st = "gone"

\* --------------------------------------------------------------- middleware
\* the start of the window in force for user u after the first i updates:
\* the first message passed on opens a window, and so does the first passed
\* on more than windowMs after the window before
RECURSIVE WindowStart(_, _)
WindowStart(u, i) ==
  IF i = 0 THEN -1
  ELSE LET before == WindowStart(u, i - 1) IN
       IF mLog[i].user = u /\ mLog[i].outcome = "passed"
            /\ (before = -1 \/ mLog[i].at - before > mWindowMs)
         THEN mLog[i].at
         ELSE before

\* the messages of u passed on among the first i updates, in the window in
\* force after them
PassedInWindow(u, i) ==
  {j \in 1..i : /\ mLog[j].user = u
                /\ mLog[j].outcome = "passed"
                /\ WindowStart(u, j) = WindowStart(u, i)}

\* C26: for every max >= 1, at most max messages of a user are passed on
\* within one window.
C26_RateLimitPerWindow ==
  \A u \in Users : \A i \in 1..Len(mLog) :
    Cardinality(PassedInWindow(u, i)) * mMax.den <= mMax.num

\* C27: with a whitelist an update is passed on exactly when its sender's
\* id is in the whitelist; without one every update is passed on.
C27_Whitelist ==
  \A i \in 1..Len(mLog) :
    IF mAllowed = {}
      THEN mLog[i].outcome # "unauthorized"
      ELSE (mLog[i].outcome # "unauthorized") <=> (mLog[i].user \in mAllowed)

\* C27 witness: the whitelist holds user 1 only; an update of user 1 went
\* on, one of user 2 and one without a sender were turned away
C27_Witness ==
  /\ mAllowed = {1}
  /\ \E i \in 1..Len(mLog) : mLog[i].user = 1 /\ mLog[i].outcome = "passed"
  /\ \E i \in 1..Len(mLog) : mLog[i].user = 2 /\ mLog[i].outcome = "unauthorized"
  /\ \E i \in 1..Len(mLog) : mLog[i].user = NoUser /\ mLog[i].outcome = "unauthorized"

\* ---------------------------------------------------------------- downloads
\* the files the call removed from the directory
Unlinked == {f \in DownloadFiles : \E i \in 1..Len(dFiles) : dFiles[i] = f} \ dDir

WordChars == SlugChars \ {"-"}

\* the maximal runs of word characters of s, in order
RECURSIVE Words(_)
Words(s) ==
  IF s = <<>> THEN <<>>
  ELSE IF s[1] \notin WordChars THEN Words(Tail(s))
  ELSE LET k == CHOOSE n \in 1..Len(s) :
                  /\ \A i \in 1..n : s[i] \in WordChars
                  /\ (n = Len(s) \/ s[n + 1] \notin WordChars)
       IN  <<SubSeq(s, 1, k)>> \o Words(SubSeq(s, k + 1, Len(s)))

RECURSIVE JoinDashed(_)
JoinDashed(ws) ==
  IF ws = <<>> THEN <<>>
  ELSE IF Len(ws) = 1 THEN ws[1]
  ELSE ws[1] \o <<"-">> \o JoinDashed(Tail(ws))

ExampleSlug == <<"M", "y", "-", "P", "r", "o", "j", "e", "c", "t", "-", "s", "u", "b">>

\* C29 as stated: the `project.slug` context key and the config slug of a
\* project without a name are the one slug formed from cwd, the example's
\* `My-Project-sub`.
C29_Original ==
  (spc = "done" /\ ~Truthy(sName)) =>
    /\ sProjectSlug = sSlug
    /\ sCwd = ExampleCwd => sProjectSlug = ExampleSlug

\* C29: the config slug of a project without a name is the runs of letters,
\* digits and `_` of cwd joined by single dashes, with no dash at either
\* end; the `project.slug` context key is formed from the absolute working
\* directory in the same way except that a dash stands at an end where the
\* path has another character than a letter, a digit or `_`, so it begins
\* with a dash.
C29_Slugs ==
  spc = "done" =>
    /\ ~Truthy(sName) => sSlug = JoinDashed(Words(sCwd))
    /\ sProjectSlug =
         IF Words(sAbsCwd) = <<>> THEN <<"-">>
         ELSE <<"-">> \o JoinDashed(Words(sAbsCwd))
                \o (IF sAbsCwd[Len(sAbsCwd)] \in WordChars THEN <<>> ELSE <<"-">>)
    /\ sProjectSlug[1] = "-"

\* C29 witness: cwd `./My Project/sub` below the config directory /c
C29_Witness ==
  /\ spc = "done" /\ sName = UNDEF
  /\ sCwd = ExampleCwd
  /\ sSlug = ExampleSlug
  /\ sProjectSlug = <<"-", "c", "-">> \o ExampleSlug

\* ------------------------------------------------------------ C31 and C32
\* the parser after the whole stream arrived as a single chunk
WholeStream == OnData(tEngine, FreshParser, StreamText(tLines), tSink)

\* C31: the Execution Result of a line-event adapter depends only on the
\* lines the child wrote to stdout, not on how the stream was cut into
\* `data` chunks: it is the result the adapter gives when the same stream
\* arrives as one chunk.
C31_ChunkingIrrelevant ==
  tpc = "closed" =>
    tResult = LineOnClose(tEngine, WholeStream.res, tCode, WholeStream.text,
                          WholeStream.sid, <<>>)

\* the lines of the last chunk that decode, in order
Decodable ==
  SelectSeq(ChunkLines(tChunk), LAMBDA l : JsonParse(tEngine, l) # ParseFailure(tEngine))

\* C32: a stdout line that fails structured decoding is discarded without
\* effect: after a chunk, the session id, lastAssistantText, the terminal
\* result and the progress reports are what the lines of the chunk that do
\* decode give, in order, the ones after a failing line included.
C32_UndecodableLineDiscarded ==
  tChunks > 0 =>
    tState = OnLines(tEngine, tBefore,
                     [i \in 1..Len(Decodable) |-> JsonParse(tEngine, Decodable[i])],
                     tSink)

\* a chunk whose first line fails to decode and whose second line is the
\* terminal result event, which was captured
C32_Witness ==
  /\ tChunks > 0
  /\ Len(ChunkLines(tChunk)) = 2
  /\ JsonParse(tEngine, ChunkLines(tChunk)[1]) = ParseFailure(tEngine)
  /\ JsonParse(tEngine, ChunkLines(tChunk)[2]).type = "result"
  /\ tState.res # NoResult
  /\ tBefore.res = NoResult

\* -------------------------------------------------------------------- C33
\* C33: the result of the `${}` pass does not depend on the declaration
\* order of the config context keys: a declared key whose value is `${B}`,
\* B another declared key, ends the pass with the value B ends it with,
\* whether B comes before or after it.
C33_AppVarOrderIrrelevant ==
  InCall =>
    \A i \in 1..Len(mergedRaw), j \in 1..Len(mergedRaw) :
      (/\ Declared(mergedRaw[i][1]) /\ Declared(mergedRaw[j][1])
       /\ Len(mergedRaw[i][2]) = 1
       /\ mergedRaw[i][2][1] \in AppVarTokens
       /\ AppVarExpr(mergedRaw[i][2][1]) = mergedRaw[j][1])
        => afterVars[i][2] = afterVars[j][2]

\* ---------------------------------------------------------- C34, C35, C36
\* C34: the /reset flow deletes a user's data directory only on a
\* confirmation callback with action `y` sent by the user whose id is in
\* the button: a directory that is gone was deleted by such a callback, and
\* a callback of any other user, or with action `n`, deleted nothing.
C34_DeleteOnlyOnOwnConfirmation ==
  /\ \A r \in qLog : r.deleted <=> (r.action = "y" /\ r.from = r.target)
  /\ \A b \in Bots, u \in Users :
       ~qData[b][u] =>
         \E r \in qLog : r.bot = b /\ r.target = u /\ r.from = u /\ r.action = "y"

\* a tap of another user on `y` was turned away, the data still there
C34_Witness ==
  \E r \in qLog :
    /\ r.from # r.target /\ r.action = "y" /\ ~r.deleted
    /\ qData[r.bot][r.target]

\* C35: a /reset confirmation is honoured only while its prompt is active:
\* a `y` callback from a prompt that has timed out, or that a newer /reset
\* of the same user has invalidated, does not delete the user's data.
C35_ExpiredPromptNotHonoured ==
  \A r \in qLog : r.deleted => r.prompt \notin {"timeout", "invalidated"}

\* C36: the prompts of different bots of one process are independent: the
\* timer of a prompt is cancelled, and its entry removed, by a /reset, a
\* confirmation or a stop of the bot that sent it only.
C36_PromptsPerBot ==
  \A id \in 1..Len(qMsgs) : qMsgs[id].by \in {0, qMsgs[id].bot}

\* ------------------------------------------------------------ C37 and C38
\* C37: every config change is applied in the end: once the changes have
\* stopped, no debounce timer is set and no reload is in progress, the
\* bots that run were started from the latest config on disk.
C37_LatestConfigApplied ==
  (/\ bpc = "running" /\ ~bTimer
   /\ \E i \in 1..Len(bBots) : bBots[i].st = "polling")
    => bLoaded = bDisk

\* C38: after a hot reload, failed or not, every bot that was started and
\* not stopped is in the handle list shutdown and the next reload use.
C38_EveryBotHasHandle ==
  (bpc = "running" /\ nReloads > 0) =>
    \A i \in 1..Len(bBots) : bBots[i].st \in {"starting", "polling"} => i \in bHandles

\* -------------------------------------------------------------------- C39
\* C39: a /clean is not undone by an execution that was in flight: once a
\* /clean has completed, session.json holds a session id only if the
\* execution that returned it started after the last /clean completed.
C39_CleanNotUndone ==
  (xEpoch > 0 /\ xSession # UNDEF) => xSavedEpoch = xEpoch

\* -------------------------------------------------------------------- C40
\* the flags of the Codex permission tiers and their values
PermissionFlags ==
  {"--dangerously-bypass-approvals-and-sandbox", "--skip-git-repo-check", "--sandbox",
   "danger-full-access", "--full-auto", "-c", "sandbox_workspace_write.network_access=true"}

====
